---------------------------- MODULE Spec2Model ----------------------------
(***************************************************************************)
(* Lyndows: the environment layer (lyndows.util.EnvMapping and its         *)
(* subclass lyndows.wine.context.WineContext), the drive mapping of a      *)
(* prefix (lyndows.wine.prefix.Prefix, lyndows.path.UPath), the registry   *)
(* of contexts and the discovery caches (Distribution.default,             *)
(* Prefix.default), the Windows-path classifiers, the launch command of a   *)
(* program (lyndows.subprocess.Program, lyndows.program.WineProgram) and   *)
(* the external process (lyndows.subprocess.Process).                      *)
(*                                                                         *)
(* Nine state machines share this module; each leaves the variables of     *)
(* the others alone:                                                       *)
(*   SpecEnv   one environment layer and the class-level separator table   *)
(*   SpecPath  one prefix directory, the mount table, a Prefix object and  *)
(*             a UPath object bound to it                                  *)
(*   SpecCtx   the registry of WineContext and the two discovery caches    *)
(*   SpecDist  validate() of Distribution and Prefix, and Distribution()   *)
(*   SpecCopy  a layer and its copy(), with update, unset and assignment   *)
(*   SpecSep   two layers and the list separators their exports use        *)
(*   SpecCls   util.is_windows_path and path.is_windows_path on one        *)
(*             argument                                                    *)
(*   SpecProg  a program, its context and the command it is launched with  *)
(*   SpecProc  a Process object through run(), popen() and wait()          *)
(***************************************************************************)
EXTENDS Integers, Sequences, FiniteSets, TLC

VARIABLES
    layer,            \* the EnvMapping / WineContext object
    list_separator,   \* EnvMapping.__list_separator (class attribute)
    last,             \* the last call on the layer: what was asked, what it raised
    dosdevices,       \* the entries of <pfx>/dosdevices, in iterdir() order
    mounts,           \* the paths for which Path.is_mount() is true
    partitions,       \* the mount points psutil.disk_partitions() lists
    cwd,              \* the working directory of the process
    prefix,           \* the Prefix object (_drive_mapping, _sys_mount_points)
    upath,            \* a UPath object (_drive_mapping, _mount_points)
    upath_sys,        \* UPath._sys_mount_points, read once when path.py is loaded
    fs_changes,       \* how many times the directory or the mounts were changed
    plast,            \* the last call on the Prefix or the UPath
    contexts,         \* WineContext.__context
    default,          \* WineContext.__default
    dist_places,      \* Distribution._known_places
    prefix_places,    \* Prefix._known_places
    dist_fs,          \* what Distribution._look_for finds on this system
    prefix_fs,        \* what Prefix._look_for finds on this system
    scans,            \* how many times each _look_for has run
    first,            \* what the first Distribution.default() returned
    raised,           \* the places where a construction was tried and raised
    calls,            \* how many calls were made on the classes
    clast,            \* the last call on the classes
    droot,            \* a directory given to Distribution(...) and what it holds
    ptree,            \* a directory given to Prefix.validate and what it holds
    dlast,            \* the last call of validate or of Distribution(...)
    self,             \* a layer L on which copy() is called
    duply,            \* the layer L.copy() returned
    aliased,          \* the names whose list is one object in self and duply
    ulast,            \* the last call on self or on duply
    layers,           \* the layers that share the class-level separator table
    registered,       \* which layer registered a separator for which name
    slast,            \* the last call on one of the layers
    wpath,            \* a path given to the two is_windows_path functions
    wres,             \* what each of the two functions answered
    prog,             \* a subprocess.Program or a program.WineProgram
    pcontext,         \* the WineContext the program uses
    glast,            \* the last call on the program
    state,            \* Process._state
    process,          \* Process._process: the child, once popen() made one
    exit_code,        \* Process._exit_code
    starts,           \* how many times the command of the Process was started
    rlast             \* the last call on the Process

envVars  == <<layer, list_separator, last>>
pathVars == <<dosdevices, mounts, partitions, cwd, prefix, upath, upath_sys,
              fs_changes, plast>>
ctxVars  == <<contexts, default, dist_places, prefix_places, dist_fs, prefix_fs,
              scans, first, raised, calls, clast>>
distVars == <<droot, ptree, dlast>>
copyVars == <<self, duply, aliased, ulast>>
sepVars  == <<layers, registered, slast>>
clsVars  == <<wpath, wres>>
progVars == <<prog, pcontext, glast>>
procVars == <<state, process, exit_code, starts, rlast>>
vars     == <<envVars, pathVars, ctxVars, distVars, copyVars,
              sepVars, clsVars, progVars, procVars>>

\* what the calls on one group of objects leave alone
notEnv   == <<pathVars, ctxVars, distVars, copyVars, sepVars, clsVars, progVars, procVars>>
notPath  == <<envVars, ctxVars, distVars, copyVars, sepVars, clsVars, progVars, procVars>>
notCtx   == <<envVars, pathVars, distVars, copyVars, sepVars, clsVars, progVars, procVars>>
notDist  == <<envVars, pathVars, ctxVars, copyVars, sepVars, clsVars, progVars, procVars>>
notCopy  == <<envVars, pathVars, ctxVars, distVars, sepVars, clsVars, progVars, procVars>>
\* the calls on the sharing layers write the separator table of the class
notSep   == <<layer, last, pathVars, ctxVars, distVars, copyVars, clsVars, progVars, procVars>>
notCls   == <<envVars, pathVars, ctxVars, distVars, copyVars, sepVars, progVars, procVars>>
notProg  == <<envVars, pathVars, ctxVars, distVars, copyVars, sepVars, clsVars, procVars>>
notProc  == <<envVars, pathVars, ctxVars, distVars, copyVars, sepVars, clsVars, progVars>>

(***************************************************************************)
(* Python values held by a layer.  One record shape for every type, so     *)
(* that values of different types compare unequal instead of failing.      *)
(* A pathlib.Path value is kept by its str() form, under the tag "path".   *)
(***************************************************************************)
VBool(b) == [t |-> "bool", b |-> b,     n |-> 0, s |-> "", l |-> <<>>]
VInt(n)  == [t |-> "int",  b |-> FALSE, n |-> n, s |-> "", l |-> <<>>]
VStr(s)  == [t |-> "str",  b |-> FALSE, n |-> 0, s |-> s,  l |-> <<>>]
VPath(s) == [t |-> "path", b |-> FALSE, n |-> 0, s |-> s,  l |-> <<>>]
VList(l) == [t |-> "list", b |-> FALSE, n |-> 0, s |-> "", l |-> l]
VNone    == [t |-> "none", b |-> FALSE, n |-> 0, s |-> "", l |-> <<>>]

(***************************************************************************)
(* A Python dict: the sequence of its items in insertion order.            *)
(***************************************************************************)
HasKey(d, k)  == \E i \in 1..Len(d) : d[i].k = k
IndexOf(d, k) == CHOOSE i \in 1..Len(d) : d[i].k = k
Get(d, k)     == d[IndexOf(d, k)].v
Put(d, k, v)  == IF HasKey(d, k)
                 THEN [d EXCEPT ![IndexOf(d, k)] = [k |-> k, v |-> v]]
                 ELSE Append(d, [k |-> k, v |-> v])
Del(d, k)     == SelectSeq(d, LAMBDA e : e.k # k)
KeysOf(d)     == {d[i].k : i \in 1..Len(d)}

Reverse(s) == [i \in 1..Len(s) |-> s[Len(s) + 1 - i]]
InSeq(x, s) == \E i \in 1..Len(s) : s[i] = x

(***************************************************************************)
(* util.unique: the first occurrence of every element, in order (or the    *)
(* last one with lifo).                                                    *)
(***************************************************************************)
RECURSIVE uniqueFrom(_, _, _)
uniqueFrom(lst, i, acc) ==
    IF i > Len(lst) THEN acc
    ELSE uniqueFrom(lst, i + 1,
                    IF InSeq(lst[i], acc) THEN acc ELSE Append(acc, lst[i]))

\* unique with the order of lifo whatever the flag: the last occurrence kept
unique_last(seq, lifo) == Reverse(uniqueFrom(Reverse(seq), 1, <<>>))

unique(seq, lifo) ==
    LET lst == IF lifo THEN Reverse(seq) ELSE seq
        res == uniqueFrom(lst, 1, <<>>)
    IN  IF lifo THEN Reverse(res) ELSE res

(***************************************************************************)
(* The layer object.  cls is "none" before construction, "EnvMapping" or   *)
(* "WineContext" after.  dict is __dict__, protected is _protected, lock   *)
(* is _lock, kwargs is _kwargs; is_proton is dist.is_proton of the         *)
(* Distribution a WineContext was built on.                                *)
(***************************************************************************)
NoLayer ==
    [cls |-> "none", dict |-> <<>>, protected |-> {}, lock |-> TRUE,
     is_proton |-> FALSE, kwargs |-> <<>>]

Raised(L, e) == [layer |-> L, exc |-> e]
Done(L)      == [layer |-> L, exc |-> "none"]

\* EnvMapping._append_list: old + new raises TypeError unless old is a list.
append_list(L, key, values_list) ==
    IF HasKey(L.dict, key)
    THEN IF Get(L.dict, key).t = "list"
         THEN Done([L EXCEPT !.dict =
                      Put(@, key, VList(unique(Get(L.dict, key).l \o values_list, FALSE)))])
         ELSE Raised(L, "TypeError")
    ELSE Done([L EXCEPT !.dict = Put(@, key, VList(unique(values_list, FALSE)))])

\* __setattr__ without the protected-name branch
setattr_unprotected(L, name, value) ==
    IF value.t = "list"
    THEN append_list(L, name, value.l)
    ELSE Done([L EXCEPT !.dict = Put(@, name, value)])

\* EnvMapping.__setattr__ on an environment name (no name drawn here is one
\* of the __slots__, whose branch stores the slot and returns).
setattr(L, name, value) ==
    IF name \in L.protected /\ L.lock
    THEN Raised(L, "AttributeError")
    ELSE IF value.t = "list"
         THEN append_list(L, name, value.l)
         ELSE Done([L EXCEPT !.dict = Put(@, name, value)])

\* EnvMapping.__setitem__
setitem(L, key, value) == setattr(L, key, value)

\* EnvMapping.unset: del of a missing key raises KeyError.
unset(L, name) ==
    IF name \in L.protected THEN Done(L)
    ELSE IF HasKey(L.dict, name)
         THEN Done([L EXCEPT !.dict = Del(@, name)])
         ELSE Raised(L, "KeyError")

\* EnvMapping.__delitem__
delitem(L, key) == unset(L, key)

\* EnvMapping.clear: self.__dict__.clear()
clear_dict(L) == Done([L EXCEPT !.dict = <<>>])

\* EnvMapping.pop: self.__dict__.pop(name), KeyError for a missing name
pop(L, name) ==
    IF HasKey(L.dict, name) THEN Done([L EXCEPT !.dict = Del(@, name)])
    ELSE Raised(L, "KeyError")

\* EnvMapping.popitem: the last item goes, KeyError on an empty dict
popitem(L) ==
    IF L.dict = <<>> THEN Raised(L, "KeyError")
    ELSE Done([L EXCEPT !.dict = SubSeq(@, 1, Len(@) - 1)])

\* EnvMapping.setdefault: a held name is left alone, another is assigned
setdefault(L, name, value) ==
    IF HasKey(L.dict, name) THEN Done(L) ELSE setattr(L, name, value)

\* EnvMapping.update(other, clear) with clear a list (or None, the empty
\* list) and other the items of a dict or of a layer's __dict__.  The loop
\* stops at the first exception and keeps what it has done so far.
RECURSIVE updateFrom(_, _, _, _)
updateFrom(L, other, clear, i) ==
    IF i > Len(other) THEN Done(L)
    ELSE LET key   == other[i].k
             value == other[i].v
         IN  IF key \in L.protected
             THEN updateFrom(L, other, clear, i + 1)
             ELSE IF InSeq(key, clear) /\ ~HasKey(L.dict, key)
                  THEN Raised(L, "KeyError")
                  ELSE LET L1 == IF InSeq(key, clear) /\ Get(L.dict, key).t = "list"
                                 THEN [L EXCEPT !.dict = Put(@, key, VList(<<>>))]
                                 ELSE L
                           r  == setattr(L1, key, value)
                       IN  IF r.exc # "none" THEN r
                           ELSE updateFrom(r.layer, other, clear, i + 1)

update(L, other, clear) == updateFrom(L, other, clear, 1)

(***************************************************************************)
(* Python's int() and str() on the values a layer holds.                   *)
(***************************************************************************)
\* int(value): a bool or an int converts; a string converts when it spells
\* an integer (ValueError otherwise); anything else raises TypeError.
IntOf(v) ==
    CASE v.t = "bool" -> [exc |-> "none", n |-> IF v.b THEN 1 ELSE 0]
      [] v.t = "int"  -> [exc |-> "none", n |-> v.n]
      [] v.t = "str"  -> IF v.s = "0" THEN [exc |-> "none", n |-> 0]
                         ELSE IF v.s = "1" THEN [exc |-> "none", n |-> 1]
                         ELSE [exc |-> "ValueError", n |-> 0]
      [] OTHER        -> [exc |-> "TypeError", n |-> 0]

Digit(d) == <<"0", "1", "2", "3", "4", "5", "6", "7", "8", "9">>[d + 1]

RECURSIVE NatStr(_)
NatStr(n) == IF n < 10 THEN Digit(n) ELSE NatStr(n \div 10) \o Digit(n % 10)

IntStr(n) == IF n < 0 THEN "-" \o NatStr(0 - n) ELSE NatStr(n)

\* str(v) of a value that is not a list.
StrOf(v) ==
    CASE v.t = "bool" -> IF v.b THEN "True" ELSE "False"
      [] v.t = "int"  -> IntStr(v.n)
      [] v.t = "none" -> "None"
      [] OTHER        -> v.s

\* separator.join([str(p) for p in v])
RECURSIVE JoinFrom(_, _, _)
JoinFrom(sep, l, i) ==
    IF i > Len(l) THEN ""
    ELSE IF i = Len(l) THEN l[i]
    ELSE l[i] \o sep \o JoinFrom(sep, l, i + 1)

Join(sep, l) == JoinFrom(sep, l, 1)

(***************************************************************************)
(* WineContext.env_hook: ESYNC, FSYNC and LARGE_ADDRESS_AWARE are renamed, *)
(* with a companion key under a proton distribution.  The loop runs over a *)
(* snapshot (proxy) of the working dict and edits the working dict.        *)
(***************************************************************************)
HookNames == {"ESYNC", "FSYNC", "LARGE_ADDRESS_AWARE"}

HookWineKey(name) ==
    CASE name = "ESYNC" -> "WINEESYNC"
      [] name = "FSYNC" -> "WINEFSYNC"
      [] OTHER          -> "WINE_LARGE_ADDRESS_AWARE"

HookProtonKey(name) ==
    CASE name = "ESYNC" -> "PROTON_NO_ESYNC"
      [] name = "FSYNC" -> "PROTON_NO_FSYNC"
      [] OTHER          -> "PROTON_FORCE_LARGE_ADDRESS_AWARE"

\* the companion without the inversion
HookProtonValue_same(name, n) == n

\* the companion's value: 1 - int(value), but int(value) for LARGE_ADDRESS_AWARE
HookProtonValue(name, n) == IF name = "LARGE_ADDRESS_AWARE" THEN n ELSE 1 - n

RECURSIVE hookFrom(_, _, _, _)
hookFrom(is_proton, proxy, e, i) ==
    IF i > Len(proxy) THEN [exc |-> "none", env |-> e]
    ELSE LET name  == proxy[i].k
             value == proxy[i].v
         IN  IF name \in HookNames
             THEN LET c  == IntOf(value)
                      e1 == Put(e, HookWineKey(name), VInt(c.n))
                      e2 == IF is_proton
                            THEN Put(e1, HookProtonKey(name),
                                     VInt(HookProtonValue(name, c.n)))
                            ELSE e1
                  IN  IF c.exc # "none" THEN [exc |-> c.exc, env |-> e]
                      ELSE hookFrom(is_proton, proxy, Del(e2, name), i + 1)
             ELSE hookFrom(is_proton, proxy, e, i + 1)

\* EnvMapping.env_hook returns its argument; WineContext overrides it.
env_hook(L, e) ==
    IF L.cls = "WineContext" THEN hookFrom(L.is_proton, e, e, 1)
    ELSE [exc |-> "none", env |-> e]

(***************************************************************************)
(* EnvMapping.env: the export.  seps is EnvMapping.__list_separator.  The  *)
(* result is the exported dict as a function from its keys to strings, or  *)
(* the exception the hook raised.                                          *)
(***************************************************************************)
SeparatorOf(seps, k) == IF k \in DOMAIN seps THEN seps[k] ELSE VStr(":")

\* the elif branch of the loop that skips the item
Skipped(v) == v.t # "list" /\ v.t # "bool" /\ (StrOf(v) = "" \/ v.t = "none")

Flat(seps, k, v) ==
    IF v.t = "list" THEN Join(SeparatorOf(seps, k).s, v.l)
    ELSE IF v.t = "bool" THEN IntStr(IF v.b THEN 1 ELSE 0)
    ELSE StrOf(v)

\* separator.join(...) on a registered separator that is no string
JoinFails(seps, e) ==
    \E k \in KeysOf(e) : Get(e, k).t = "list" /\ SeparatorOf(seps, k).t # "str"

env(L, seps) ==
    LET hook == env_hook(L, L.dict)
        kept == {k \in KeysOf(hook.env) : ~Skipped(Get(hook.env, k))}
    IN  IF hook.exc # "none"
        THEN [exc |-> hook.exc, env |-> <<>>]
        ELSE IF JoinFails(seps, hook.env)
        THEN [exc |-> "AttributeError", env |-> <<>>]
        ELSE [exc |-> "none",
              env |-> [k \in kept |-> Flat(seps, k, Get(hook.env, k))]]

\* EnvMapping.add_list_separator: the guard raises only for a separator that
\* is not a string and whose len() is not 1 (len() itself raises TypeError
\* on a value without a length).
add_list_separator(seps, attribute, separator) ==
    IF separator.t # "str" /\ (separator.t # "list" \/ Len(separator.l) # 1)
    THEN [exc |-> "TypeError", seps |-> seps]
    ELSE [exc |-> "none",
          seps |-> [k \in (DOMAIN seps) \cup {attribute} |->
                      IF k = attribute THEN separator ELSE seps[k]]]

(***************************************************************************)
(* Construction.  EnvMapping keeps its keyword arguments and protects      *)
(* nothing.                                                                *)
(* WineContext(dist, prefix, kwargs) registers ';' for WINEDLLOVERRIDES,   *)
(* seeds the five protected names with the lock off, locks, sets the       *)
(* defaults and merges kwargs with update().                               *)
(***************************************************************************)
RECURSIVE setAll(_, _, _)
setAll(L, items, i) ==
    IF i > Len(items) THEN Done(L)
    ELSE LET r == setattr(L, items[i].k, items[i].v)
         IN  IF r.exc # "none" THEN r ELSE setAll(r.layer, items, i + 1)

Item(k, v) == [k |-> k, v |-> v]

WineProtected == {"WINEDIST", "WINELOADER", "WINEPREFIX", "WINESERVER", "WINEARCH"}

\* dist.winedist, dist.loader, prefix.pfx, dist.server, ""
WineSeeds(dist, pfx) ==
    << Item("WINEDIST",   VPath(dist.winedist)),
       Item("WINELOADER", VPath(dist.winedist \o "/bin/wine64")),
       Item("WINEPREFIX", VPath(pfx)),
       Item("WINESERVER", VPath(dist.winedist \o "/bin/wineserver")),
       Item("WINEARCH",   VStr("")) >>

\* the defaults, built on self.WINEDIST as the layer holds it
WineDefaults(L) ==
    LET w == Get(L.dict, "WINEDIST").s
    IN  << Item("WINEPATH", VStr("")),
           Item("WINEDLLPATH", VList(<<w \o "/lib64/wine", w \o "/lib/wine">>)),
           Item("WINEDLLOVERRIDES", VList(<<>>)),
           Item("PATH", VList(<<w \o "/bin", "/usr/bin", "/bin">>)),
           Item("LD_LIBRARY_PATH", VList(<<w \o "/lib64", w \o "/lib">>)),
           Item("TERM", VStr("xterm")),
           Item("WINEDEBUG", VStr("-all,-fixme,-server")) >>

EnvMapping_init(kwargs) ==
    [cls |-> "EnvMapping", dict |-> <<>>, protected |-> {}, lock |-> TRUE,
     is_proton |-> FALSE, kwargs |-> kwargs]

WineContext_init(dist, pfx, kwargs) ==
    LET L0 == [EnvMapping_init(kwargs) EXCEPT !.cls = "WineContext",
                                              !.is_proton = dist.is_proton]
        L1 == [L0 EXCEPT !.protected = WineProtected, !.lock = FALSE]
        r1 == setAll(L1, WineSeeds(dist, pfx), 1)
        L2 == [r1.layer EXCEPT !.lock = TRUE]
        r2 == setAll(L2, WineDefaults(L2), 1)
    IN  IF r1.exc # "none" THEN r1
        ELSE IF r2.exc # "none" THEN r2
        ELSE update(r2.layer, kwargs, <<>>)

(***************************************************************************)
(* Paths.  A pathlib path is its flavour, drive, root and the sequence of  *)
(* its names; str() of a normalised path and this record determine each    *)
(* other, so a dict keyed by str(path) is keyed here by the record.        *)
(***************************************************************************)
Posix(parts)    == [flavour |-> "posix", drive |-> "", root |-> TRUE,  parts |-> parts]
PosixRel(parts) == [flavour |-> "posix", drive |-> "", root |-> FALSE, parts |-> parts]
Win(drive, root, parts) ==
    [flavour |-> "win", drive |-> drive, root |-> root, parts |-> parts]
NoPath == [flavour |-> "none", drive |-> "", root |-> FALSE, parts |-> <<>>]

RootPath == Posix(<<>>)

\* an optional string: a drive name or None
Some(x) == [some |-> TRUE, s |-> x]
None    == [some |-> FALSE, s |-> ""]

\* Python's truth value of an optional string (None and "" are false)
Truthy(o) == o.some /\ o.s # ""

\* dict.get(key) on a dict kept as a function: None when the key is missing
GetOpt(f, key) == IF key \in DOMAIN f THEN f[key] ELSE None

\* path.parent
Parent(path) ==
    IF path.parts = <<>> THEN path
    ELSE [path EXCEPT !.parts = SubSeq(@, 1, Len(@) - 1)]

\* util.is_windows_path on a POSIX host: Path(path) is a PosixPath, whose
\* drive is always '', so only the PureWindowsPath test can succeed.
is_windows_path(path) == FALSE \/ path.flavour = "win"

\* Path(path).expanduser().absolute() of a POSIX path
Absolute(path, wd) ==
    IF path.root THEN path ELSE Posix(wd.parts \o path.parts)

\* util.mount_point: walk up from the absolute path to the first mount
RECURSIVE mountFrom(_, _)
mountFrom(path, mnts) ==
    IF path \in mnts \/ path.parts = <<>> THEN path
    ELSE mountFrom(Parent(path), mnts)

mount_point(path, wd, mnts) == mountFrom(Absolute(path, wd), mnts)

\* path.relative_to(mnt), for mnt an ancestor of path
RelativeTo(path, mnt) ==
    PosixRel(SubSeq(path.parts, Len(mnt.parts) + 1, Len(path.parts)))

\* PureWindowsPath(f"{drive}/{path}"): with a drive name the text starts
\* "X:/" and parses to drive, root and the names of path ('.' and a doubled
\* slash vanish); with None it starts "None/" and parses to a relative
\* Windows path whose first name is "None".
WindowsOf(drive, path) ==
    IF drive.some
    THEN Win(drive.s, TRUE, path.parts)
    ELSE Win("", FALSE, <<"None">> \o path.parts)

\* Path(w) of a PureWindowsPath on a POSIX host: the parts of w become the
\* names of a relative POSIX path, the anchor "X:\" being one of them.
PosixOfWindows(w) ==
    IF w.drive # "" \/ w.root
    THEN PosixRel(<<w.drive \o (IF w.root THEN "\\" ELSE "")>> \o w.parts)
    ELSE PosixRel(w.parts)

(***************************************************************************)
(* <pfx>/dosdevices: each entry has a name, is a symbolic link or not, and *)
(* a link has a target, as readlink() returns it.                          *)
(***************************************************************************)
PfxDir     == Posix(<<"pfx">>)
DevicesDir == Posix(<<"pfx", "dosdevices">>)

Link(name, target) == [name |-> name, symlink |-> TRUE,  target |-> target]
File(name)         == [name |-> name, symlink |-> FALSE, target |-> NoPath]

\* len(dev.name) == 2 and dev.name.endswith(":") and dev.is_symlink:
\* is_symlink is not called, and a bound method is true.
IsDrive(dev) ==
    Len(dev.name) = 2 /\ SubSeq(dev.name, Len(dev.name), Len(dev.name)) = ":" /\ TRUE

\* (devices / mnt).resolve(): ".." steps up, lexically
RECURSIVE resolveFrom(_, _, _)
resolveFrom(base, names, i) ==
    IF i > Len(names) THEN base
    ELSE IF names[i] = ".."
         THEN resolveFrom(IF base = <<>> THEN base ELSE SubSeq(base, 1, Len(base) - 1),
                          names, i + 1)
         ELSE resolveFrom(Append(base, names[i]), names, i + 1)

Resolve(dir, rel) == Posix(resolveFrom(dir.parts, rel.parts, 1))

(***************************************************************************)
(* Prefix.  _drive_mapping is a dict from str(readlink()) to the entry's   *)
(* name; _sys_mount_points a dict from mount point to drive name or None.  *)
(***************************************************************************)
NoPrefix == [made |-> FALSE, drive_mapping |-> <<>>, sys_mount_points |-> <<>>]

\* the loop with a mapping that records every assignment instead of keeping
\* one value per key
RECURSIVE prefixLinksFrom_append(_, _, _)
prefixLinksFrom_append(dm, devs, i) ==
    IF i > Len(devs) THEN [exc |-> "none", dm |-> dm]
    ELSE IF IsDrive(devs[i])
         THEN IF devs[i].symlink
              THEN prefixLinksFrom_append(
                       Append(dm, [k |-> devs[i].target, v |-> devs[i].name]),
                       devs, i + 1)
              ELSE [exc |-> "OSError", dm |-> dm]
         ELSE prefixLinksFrom_append(dm, devs, i + 1)

\* the first loop of Prefix._update_drive_mapping; readlink() of an entry
\* that is no symbolic link raises OSError and ends the call
RECURSIVE prefixLinksFrom(_, _, _)
prefixLinksFrom(dm, devs, i) ==
    IF i > Len(devs) THEN [exc |-> "none", dm |-> dm]
    ELSE IF IsDrive(devs[i])
         THEN IF devs[i].symlink
              THEN prefixLinksFrom(Put(dm, devs[i].target, devs[i].name), devs, i + 1)
              ELSE [exc |-> "OSError", dm |-> dm]
         ELSE prefixLinksFrom(dm, devs, i + 1)

\* Prefix._update_drive_mapping
Prefix_update_drive_mapping(pfx, devs, parts) ==
    LET r == prefixLinksFrom(pfx.drive_mapping, devs, 1)
    IN  IF r.exc # "none"
        THEN [exc |-> r.exc, pfx |-> [pfx EXCEPT !.drive_mapping = r.dm]]
        ELSE [exc |-> "none",
              pfx |-> [pfx EXCEPT
                         !.drive_mapping = r.dm,
                         !.sys_mount_points =
                            [mnt \in parts |->
                               IF HasKey(r.dm, mnt) THEN Some(Get(r.dm, mnt)) ELSE None]]]

\* Prefix.__init__ on a valid prefix directory: the mapping is built, then
\* _sys_mount_points is set to the empty dict.
Prefix_init(devs, parts) ==
    LET r == Prefix_update_drive_mapping(
                 [made |-> TRUE, drive_mapping |-> <<>>, sys_mount_points |-> <<>>],
                 devs, parts)
    IN  IF r.exc # "none" THEN [exc |-> r.exc, pfx |-> NoPrefix]
        ELSE [exc |-> "none", pfx |-> [r.pfx EXCEPT !.sys_mount_points = <<>>]]

\* Prefix.get_windows_path
get_windows_path(pfx, path, wd, mnts) ==
    IF is_windows_path(path) THEN path
    ELSE LET mnt   == mount_point(path, wd, mnts)
             drive == GetOpt(pfx.sys_mount_points, mnt)
             abs   == Absolute(path, wd)
         IN  IF Truthy(drive)
             THEN WindowsOf(drive, RelativeTo(abs, mnt))
             ELSE WindowsOf(GetOpt(pfx.sys_mount_points, RootPath), abs)

\* path.drive of a PosixPath
PosixDrive(path) == ""

\* next((mnt for mnt, drv in _drive_mapping.items() if drv == drive), "/")
RECURSIVE anchorFrom(_, _, _)
anchorFrom(dm, drive, i) ==
    IF i > Len(dm) THEN RootPath
    ELSE IF dm[i].v = drive THEN dm[i].k
    ELSE anchorFrom(dm, drive, i + 1)

\* Path(anchor) / rest: an absolute rest replaces the anchor
JoinPath(anchor, rest) ==
    IF rest.root THEN rest
    ELSE [anchor EXCEPT !.parts = @ \o rest.parts]

\* Prefix.get_native_path
get_native_path(pfx, path, wd) ==
    IF ~is_windows_path(path) THEN path
    ELSE LET abs    == Absolute(PosixOfWindows(path), wd)
             anchor == anchorFrom(pfx.drive_mapping, PosixDrive(abs), 1)
         IN  JoinPath(anchor, RelativeTo(abs, RootPath))

(***************************************************************************)
(* UPath.  _drive_mapping is a dict from drive name to mount point,        *)
(* _mount_points a dict from each mount point of the class attribute       *)
(* _sys_mount_points to a drive name or ''.                                *)
(***************************************************************************)
NoUPath == [made |-> FALSE, drive_mapping |-> <<>>, mount_points |-> <<>>]

\* the loop over devices.iterdir() of UPath._update_drive_mapping
RECURSIVE upathLinksFrom(_, _, _, _)
upathLinksFrom(u, devs, sys, i) ==
    IF i > Len(devs) THEN [exc |-> "none", upath |-> u]
    ELSE IF IsDrive(devs[i])
         THEN IF devs[i].symlink
              THEN LET mnt == IF devs[i].target.root THEN devs[i].target
                              ELSE Resolve(DevicesDir, devs[i].target)
                   IN  upathLinksFrom(
                         [u EXCEPT
                            !.drive_mapping = Put(@, devs[i].name, mnt),
                            !.mount_points =
                               IF mnt \in sys
                               THEN [m \in sys |-> IF m = mnt THEN devs[i].name ELSE @[m]]
                               ELSE @],
                         devs, sys, i + 1)
              ELSE [exc |-> "OSError", upath |-> u]
         ELSE upathLinksFrom(u, devs, sys, i + 1)

\* UPath._update_drive_mapping, _winepfx being set
UPath_update_drive_mapping(u, devs, sys) ==
    upathLinksFrom([u EXCEPT !.drive_mapping = <<>>,
                             !.mount_points = [m \in sys |-> ""]],
                   devs, sys, 1)

(***************************************************************************)
(* The file system the conversions read: the entries of dosdevices in the  *)
(* order iterdir() yields them, the mount points, the partitions psutil    *)
(* lists, the working directory.                                           *)
(***************************************************************************)
MaxDevs      == 2
MaxFsChanges == 1

MntPath == Posix(<<"mnt">>)

Devices ==
    { Link("c:", PosixRel(<<"..", "drive_c">>)),
      Link("d:", MntPath),
      Link("e:", MntPath),
      Link("z:", RootPath),
      File("x:"),
      Link("com1", Posix(<<"dev", "ttyS0">>)) }

DistinctNames(devs) ==
    \A i, j \in 1..Len(devs) : devs[i].name = devs[j].name => i = j

Listings ==
    { devs \in UNION { [1..n -> Devices] : n \in 0..MaxDevs } : DistinctNames(devs) }

\* (mount points, partitions): "/mnt" is a mounted partition or a plain
\* directory of the partition mounted on "/"
MountTables ==
    { [mounts |-> {RootPath},          partitions |-> {RootPath}],
      [mounts |-> {RootPath, MntPath}, partitions |-> {RootPath, MntPath}] }

Cwds == {Posix(<<"home">>)}

NativePaths ==
    { Posix(<<"mnt", "sub">>), Posix(<<"home", "f">>), PosixRel(<<"f">>) }

WinPaths ==
    { Win("d:", TRUE, <<"sub">>), Win("q:", TRUE, <<"sub">>) }

\* the last call on a prefix or a path object: its name, argument, exception
\* and result, and whether the call before it was the same operation
NoPCall ==
    [op |-> "none", arg |-> NoPath, exc |-> "none", res |-> NoPath,
     again |-> FALSE, tick |-> 0]

PCall(op, arg, exc, res) ==
    [op |-> op, arg |-> arg, exc |-> exc, res |-> res,
     again |-> (op = plast.op), tick |-> 1 - plast.tick]

\* no prefix, no path object: the state of the path variables in the
\* executions that never touch them
IdlePath ==
    /\ dosdevices = <<>>
    /\ mounts = {RootPath}
    /\ partitions = {RootPath}
    /\ cwd = RootPath
    /\ prefix = NoPrefix
    /\ upath = NoUPath
    /\ upath_sys = {RootPath}
    /\ fs_changes = 0
    /\ plast = NoPCall

\* path.py is imported: UPath._sys_mount_points is computed from the
\* partitions of that moment
InitPath ==
    /\ dosdevices \in Listings
    /\ \E t \in MountTables :
          /\ mounts = t.mounts
          /\ partitions = t.partitions
          /\ upath_sys = t.partitions
    /\ cwd \in Cwds
    /\ prefix = NoPrefix
    /\ upath = NoUPath
    /\ fs_changes = 0
    /\ plast = NoPCall

fsVars == <<dosdevices, mounts, partitions, cwd, upath_sys, fs_changes>>

\* Prefix(root) on a valid prefix directory
NewPrefix ==
    LET r == Prefix_init(dosdevices, partitions)
    IN  /\ prefix' = r.pfx
        /\ upath' = NoUPath
        /\ plast' = PCall("Prefix", NoPath, r.exc, NoPath)
        /\ UNCHANGED <<fsVars, notPath>>

\* prefix._update_drive_mapping()
PrefixRefresh ==
    /\ prefix.made
    /\ LET r == Prefix_update_drive_mapping(prefix, dosdevices, partitions)
       IN  /\ prefix' = r.pfx
           /\ plast' = PCall("Prefix._update_drive_mapping", NoPath, r.exc, NoPath)
    /\ UNCHANGED <<upath, fsVars, notPath>>

\* prefix.get_windows_path(path)
GetWindowsPath ==
    /\ prefix.made
    /\ \E path \in NativePaths :
          plast' = PCall("get_windows_path", path, "none",
                         get_windows_path(prefix, path, cwd, mounts))
    /\ UNCHANGED <<prefix, upath, fsVars, notPath>>

\* prefix.get_native_path(path), on a Windows path or on the result of the
\* conversion just made
GetNativePath ==
    /\ prefix.made
    /\ \E path \in WinPaths \cup
                   (IF plast.op = "get_windows_path" THEN {plast.res} ELSE {}) :
          plast' = PCall("get_native_path", path, "none",
                         get_native_path(prefix, path, cwd))
    /\ UNCHANGED <<prefix, upath, fsVars, notPath>>

\* UPath._new_winepfx once a context is at hand: the prefix of the context
\* becomes _winepfx, both dicts start empty and the mapping is built
NewUPath ==
    /\ prefix.made
    /\ LET r == UPath_update_drive_mapping(
                    [made |-> TRUE, drive_mapping |-> <<>>, mount_points |-> <<>>],
                    dosdevices, upath_sys)
       IN  /\ upath' = IF r.exc = "none" THEN r.upath ELSE NoUPath
           /\ plast' = PCall("UPath", NoPath, r.exc, NoPath)
    /\ UNCHANGED <<prefix, fsVars, notPath>>

\* upath._update_drive_mapping()
UPathRefresh ==
    /\ upath.made
    /\ LET r == UPath_update_drive_mapping(upath, dosdevices, upath_sys)
       IN  /\ upath' = r.upath
           /\ plast' = PCall("UPath._update_drive_mapping", NoPath, r.exc, NoPath)
    /\ UNCHANGED <<prefix, fsVars, notPath>>

\* the world changes dosdevices: an entry appears
AddDevice ==
    /\ fs_changes < MaxFsChanges
    /\ Len(dosdevices) < MaxDevs
    /\ \E dev \in Devices :
          /\ \A i \in 1..Len(dosdevices) : dosdevices[i].name # dev.name
          /\ dosdevices' = Append(dosdevices, dev)
    /\ fs_changes' = fs_changes + 1
    /\ plast' = PCall("fs", NoPath, "none", NoPath)
    /\ UNCHANGED <<mounts, partitions, cwd, upath_sys, prefix, upath, notPath>>

\* the world changes dosdevices: an entry disappears
RemoveDevice ==
    /\ fs_changes < MaxFsChanges
    /\ \E i \in 1..Len(dosdevices) :
          dosdevices' = SubSeq(dosdevices, 1, i - 1)
                        \o SubSeq(dosdevices, i + 1, Len(dosdevices))
    /\ fs_changes' = fs_changes + 1
    /\ plast' = PCall("fs", NoPath, "none", NoPath)
    /\ UNCHANGED <<mounts, partitions, cwd, upath_sys, prefix, upath, notPath>>

\* the world changes the mount table
Remount ==
    /\ fs_changes < MaxFsChanges
    /\ \E t \in MountTables :
          /\ t.mounts # mounts \/ t.partitions # partitions
          /\ mounts' = t.mounts
          /\ partitions' = t.partitions
    /\ fs_changes' = fs_changes + 1
    /\ plast' = PCall("fs", NoPath, "none", NoPath)
    /\ UNCHANGED <<dosdevices, cwd, upath_sys, prefix, upath, notPath>>

NextPath ==
    \/ NewPrefix
    \/ PrefixRefresh
    \/ GetWindowsPath
    \/ GetNativePath
    \/ NewUPath
    \/ UPathRefresh
    \/ AddDevice
    \/ RemoveDevice
    \/ Remount

(***************************************************************************)
(* Discovery.  A _known_places dict maps a place to None (not tried yet),  *)
(* False (construction failed) or the instance constructed there; an       *)
(* instance is named by its place.                                         *)
(***************************************************************************)
Untried  == [state |-> "None",     place |-> ""]
Failed   == [state |-> "False",    place |-> ""]
Instance(place) == [state |-> "instance", place |-> place]

\* the kind of the candidate at a place, among the candidates fs holds
KindOf(fs, place) ==
    LET hits == { i \in 1..Len(fs) : fs[i].place = place }
    IN  IF hits = {} THEN "notdir" ELSE fs[CHOOSE i \in hits : TRUE].kind

\* Distribution(root): NotADirectoryError when root is no directory,
\* AttributeError when neither root nor its proton layout validates
Distribution_init(fs, root) ==
    LET kind == KindOf(fs, root)
    IN  IF kind = "notdir" THEN [exc |-> "NotADirectoryError", res |-> Untried]
        ELSE IF kind \in {"wine", "proton"} THEN [exc |-> "none", res |-> Instance(root)]
        ELSE [exc |-> "AttributeError", res |-> Untried]

\* Prefix(root): as above, and the call of _update_drive_mapping raises
\* OSError when dosdevices holds a drive entry that is no symbolic link
Prefix_new(fs, root) ==
    LET kind == KindOf(fs, root)
    IN  IF kind = "notdir" THEN [exc |-> "NotADirectoryError", res |-> Untried]
        ELSE IF kind = "prefix" THEN [exc |-> "none", res |-> Instance(root)]
        ELSE IF kind = "badlink" THEN [exc |-> "OSError", res |-> Untried]
        ELSE [exc |-> "AttributeError", res |-> Untried]

\* Distribution._look_for: every candidate found is entered with None, a
\* place already known keeping its position
RECURSIVE Distribution_look_for(_, _, _)
Distribution_look_for(places, fs, i) ==
    IF i > Len(fs) THEN places
    ELSE Distribution_look_for(Put(places, fs[i].place, Untried), fs, i + 1)

\* Prefix._look_for: the same, for the directories among its three places
RECURSIVE Prefix_look_for(_, _, _)
Prefix_look_for(places, fs, i) ==
    IF i > Len(fs) THEN places
    ELSE Prefix_look_for(Put(places, fs[i].place, Untried), fs, i + 1)

\* the loop of Distribution.default over _known_places.items(); built lists
\* the places where the constructor was called
RECURSIVE distFrom(_, _, _, _)
distFrom(places, fs, i, built) ==
    IF i > Len(places)
    THEN [exc |-> "none", res |-> Untried, places |-> places, built |-> built]
    ELSE IF places[i].v.state = "False" THEN distFrom(places, fs, i + 1, built)
    ELSE IF places[i].v.state = "instance"
         THEN [exc |-> "none", res |-> places[i].v, places |-> places, built |-> built]
    ELSE LET r == Distribution_init(fs, places[i].k)
             b == Append(built, places[i].k)
         IN  IF r.exc \in {"NotADirectoryError", "AttributeError"}
             THEN distFrom(Put(places, places[i].k, Failed), fs, i + 1, b)
             ELSE IF r.exc # "none"
             THEN [exc |-> r.exc, res |-> Untried, places |-> places, built |-> b]
             ELSE [exc |-> "none", res |-> r.res,
                   places |-> Put(places, places[i].k, r.res), built |-> b]

\* Distribution.default; res.state = "None" is the return value None
Distribution_default(places, fs) ==
    LET scan == Len(places) = 0
        r    == distFrom(IF scan THEN Distribution_look_for(places, fs, 1) ELSE places,
                     fs, 1, <<>>)
    IN  [exc |-> r.exc, res |-> r.res, places |-> r.places, scanned |-> scan,
         built |-> r.built]

\* the loop of Prefix.default over _known_places.items()
RECURSIVE prefixFrom(_, _, _, _)
prefixFrom(places, fs, i, built) ==
    IF i > Len(places)
    THEN [exc |-> "none", res |-> Untried, places |-> places, built |-> built]
    ELSE IF places[i].v.state = "False" THEN prefixFrom(places, fs, i + 1, built)
    ELSE IF places[i].v.state = "instance"
         THEN [exc |-> "none", res |-> places[i].v, places |-> places, built |-> built]
    ELSE LET r == Prefix_new(fs, places[i].k)
             b == Append(built, places[i].k)
         IN  IF r.exc \in {"NotADirectoryError", "AttributeError"}
             THEN prefixFrom(Put(places, places[i].k, Failed), fs, i + 1, b)
             ELSE IF r.exc # "none"
             THEN [exc |-> r.exc, res |-> Untried, places |-> places, built |-> b]
             ELSE [exc |-> "none", res |-> r.res,
                   places |-> Put(places, places[i].k, r.res), built |-> b]

\* Prefix.default
Prefix_default(places, fs) ==
    LET scan == Len(places) = 0
        r    == prefixFrom(IF scan THEN Prefix_look_for(places, fs, 1) ELSE places,
                       fs, 1, <<>>)
    IN  [exc |-> r.exc, res |-> r.res, places |-> r.places, scanned |-> scan,
         built |-> r.built]

(***************************************************************************)
(* The registry of WineContext.  A context is named by an identifier;      *)
(* "None" is Python's None.                                                *)
(***************************************************************************)
Ctxs     == {"c1", "c2"}
AutoCtx  == "auto"      \* the instance default_context constructs
NonCtx   == "text"      \* a str, not a WineContext
ClassObj == "class"     \* the class WineContext itself, the cls of a classmethod

TypeOf(x) ==
    IF x = ClassObj THEN "type"
    ELSE IF x \in Ctxs \cup {AutoCtx} THEN "WineContext"
    ELSE "str"

isinstance(x, class) == TypeOf(x) = class

\* EnvMapping defines __eq__ and no __hash__: its instances cannot be hashed
Hashable(x) == TypeOf(x) # "WineContext"

\* the result of a call that returns a context, or None
Ctx(x) == IF x = "None" THEN Untried ELSE [state |-> "context", place |-> x]

\* WineContext.register: the test is made on cls
register(cls, context, reg, dflt) ==
    IF isinstance(cls, "WineContext")
    THEN IF Hashable(context)
         THEN [exc |-> "none", contexts |-> reg \cup {context}, default |-> context]
         ELSE [exc |-> "TypeError", contexts |-> reg, default |-> dflt]
    ELSE [exc |-> "TypeError", contexts |-> reg, default |-> dflt]

\* WineContext.unregister: set.discard hashes its argument; the loop over the
\* set takes whichever element comes first, so every remaining one is a
\* possible default
unregister(ctx, reg, dflt) ==
    IF ~isinstance(ctx, "WineContext")
    THEN [exc |-> "TypeError", contexts |-> reg, defaults |-> {dflt}]
    ELSE IF ~Hashable(ctx)
    THEN [exc |-> "TypeError", contexts |-> reg, defaults |-> {dflt}]
    ELSE LET rest == reg \ {ctx}
         IN  [exc |-> "none", contexts |-> rest,
              defaults |-> IF dflt = ctx
                           THEN IF rest # {} THEN rest ELSE {"None"}
                           ELSE {dflt}]

\* WineContext.default_context, d and p being what Distribution.default()
\* and Prefix.default() do in the present state; p counts only when d
\* returned an instance
default_context_from(d, p, pplaces) ==
    IF d.exc # "none" \/ d.res.state = "None"
    THEN [exc |-> d.exc, res |-> "None", dist_places |-> d.places,
          prefix_places |-> pplaces, dist |-> d, pscanned |-> FALSE,
          built |-> d.built]
    ELSE IF p.exc # "none" \/ p.res.state = "None"
    THEN [exc |-> p.exc, res |-> "None", dist_places |-> d.places,
          prefix_places |-> p.places, dist |-> d, pscanned |-> p.scanned,
          built |-> d.built \o p.built]
    ELSE [exc |-> "none", res |-> AutoCtx, dist_places |-> d.places,
          prefix_places |-> p.places, dist |-> d, pscanned |-> p.scanned,
          built |-> d.built \o p.built]

default_context(dplaces, pplaces, dfs, pfs) ==
    default_context_from(Distribution_default(dplaces, dfs),
                         Prefix_default(pplaces, pfs), pplaces)

\* WineContext.context, c being what default_context() does in the present
\* state; discovery tells whether it was called
context_from(reg, dflt, c) ==
    IF dflt # "None"
    THEN [exc |-> "none", res |-> dflt, contexts |-> reg, default |-> dflt,
          discovery |-> FALSE, found |-> c]
    ELSE IF c.exc # "none" \/ c.res = "None"
    THEN [exc |-> c.exc, res |-> IF c.exc = "none" THEN dflt ELSE "None",
          contexts |-> reg, default |-> dflt, discovery |-> TRUE, found |-> c]
    ELSE IF register(ClassObj, c.res, reg, dflt).exc # "none"
    THEN [exc |-> register(ClassObj, c.res, reg, dflt).exc, res |-> "None",
          contexts |-> reg, default |-> dflt, discovery |-> TRUE, found |-> c]
    ELSE [exc |-> "none", res |-> register(ClassObj, c.res, reg, dflt).default,
          contexts |-> register(ClassObj, c.res, reg, dflt).contexts,
          default |-> register(ClassObj, c.res, reg, dflt).default,
          discovery |-> TRUE, found |-> c]

context(reg, dflt, dplaces, pplaces, dfs, pfs) ==
    context_from(reg, dflt, default_context(dplaces, pplaces, dfs, pfs))

(***************************************************************************)
(* The candidates the scans find, in the order they find them.             *)
(***************************************************************************)
MaxPlaces == 2
MaxCalls  == 3

Place(place, kind) == [place |-> place, kind |-> kind]

DistCandidates ==
    { Place("/opt/wine", "wine"),
      Place("/steam/Proton", "proton"),
      Place("/usr", "invalid"),
      Place("/steam/readme", "notdir") }

PrefixCandidates ==
    { Place("/home/.wine", "prefix"),
      Place("/home/.wine64", "invalid"),
      Place("/env/pfx", "badlink") }

DistinctPlaces(fs) ==
    \A i, j \in 1..Len(fs) : fs[i].place = fs[j].place => i = j

Found(candidates) ==
    { fs \in UNION { [1..n -> candidates] : n \in 0..MaxPlaces } : DistinctPlaces(fs) }

NotYet == [state |-> "unset", place |-> ""]

NoCCall ==
    [op |-> "none", arg |-> "", exc |-> "none", res |-> Untried, built |-> <<>>,
     tick |-> 0]

CCall(op, arg, exc, res, built) ==
    [op |-> op, arg |-> arg, exc |-> exc, res |-> res, built |-> built,
     tick |-> 1 - clast.tick]

\* the places of built that hold no instance afterwards: their construction
\* raised
Raising(built, places) ==
    { built[i] : i \in { j \in 1..Len(built) :
          ~(HasKey(places, built[j]) /\ Get(places, built[j]).state = "instance") } }

\* the classes as they are in the executions that never call them
IdleCtx ==
    /\ contexts = {}
    /\ default = "None"
    /\ dist_places = <<>>
    /\ prefix_places = <<>>
    /\ dist_fs = <<>>
    /\ prefix_fs = <<>>
    /\ scans = [dist |-> 0, prefix |-> 0]
    /\ first = NotYet
    /\ raised = {}
    /\ calls = 0
    /\ clast = NoCCall

\* the classes as they are once the modules are loaded
InitCtx ==
    /\ contexts = {}
    /\ default = "None"
    /\ dist_places = <<>>
    /\ prefix_places = <<>>
    /\ dist_fs \in Found(DistCandidates)
    /\ prefix_fs \in Found(PrefixCandidates)
    /\ scans = [dist |-> 0, prefix |-> 0]
    /\ first = NotYet
    /\ raised = {}
    /\ calls = 0
    /\ clast = NoCCall

Counted(dscan, pscan) ==
    [dist   |-> scans.dist   + (IF dscan THEN 1 ELSE 0),
     prefix |-> scans.prefix + (IF pscan THEN 1 ELSE 0)]

\* WineContext.register(x)
Register ==
    /\ calls < MaxCalls
    /\ \E x \in Ctxs \cup {NonCtx} :
          \E r \in {register(ClassObj, x, contexts, default)} :
              /\ contexts' = r.contexts
              /\ default' = r.default
              /\ clast' = CCall("register", x, r.exc, Untried, <<>>)
    /\ calls' = calls + 1
    /\ UNCHANGED <<dist_places, prefix_places, dist_fs, prefix_fs, scans, first,
                   raised, notCtx>>

\* WineContext.unregister(x)
Unregister ==
    /\ calls < MaxCalls
    /\ \E x \in Ctxs \cup {NonCtx} :
          \E r \in {unregister(x, contexts, default)} :
              /\ contexts' = r.contexts
              /\ default' \in r.defaults
              /\ clast' = CCall("unregister", x, r.exc, Untried, <<>>)
    /\ calls' = calls + 1
    /\ UNCHANGED <<dist_places, prefix_places, dist_fs, prefix_fs, scans, first,
                   raised, notCtx>>

\* WineContext.context()
ContextCall ==
    /\ calls < MaxCalls
    /\ \E r \in {context(contexts, default, dist_places, prefix_places, dist_fs, prefix_fs)} :
           /\ contexts' = r.contexts
           /\ default' = r.default
           /\ dist_places' = IF r.discovery THEN r.found.dist_places ELSE dist_places
           /\ prefix_places' = IF r.discovery THEN r.found.prefix_places ELSE prefix_places
           /\ scans' = IF r.discovery
                       THEN Counted(r.found.dist.scanned, r.found.pscanned)
                       ELSE scans
           /\ first' = IF r.discovery /\ first = NotYet THEN r.found.dist.res ELSE first
           /\ raised' = IF r.discovery
                        THEN raised \cup Raising(r.found.built,
                                 r.found.dist_places \o r.found.prefix_places)
                        ELSE raised
           /\ clast' = CCall("context", "", r.exc, Ctx(r.res),
                             IF r.discovery THEN r.found.built ELSE <<>>)
    /\ calls' = calls + 1
    /\ UNCHANGED <<dist_fs, prefix_fs, notCtx>>

\* Distribution.default()
DistributionDefault ==
    /\ calls < MaxCalls
    /\ \E r \in {Distribution_default(dist_places, dist_fs)} :
           /\ dist_places' = r.places
           /\ scans' = Counted(r.scanned, FALSE)
           /\ first' = IF first = NotYet THEN r.res ELSE first
           /\ raised' = raised \cup Raising(r.built, r.places)
           /\ clast' = CCall("Distribution.default", "", r.exc, r.res, r.built)
    /\ calls' = calls + 1
    /\ UNCHANGED <<contexts, default, prefix_places, dist_fs, prefix_fs,
                   notCtx>>

\* Prefix.default()
PrefixDefault ==
    /\ calls < MaxCalls
    /\ \E r \in {Prefix_default(prefix_places, prefix_fs)} :
           /\ prefix_places' = r.places
           /\ scans' = Counted(FALSE, r.scanned)
           /\ raised' = raised \cup Raising(r.built, r.places)
           /\ clast' = CCall("Prefix.default", "", r.exc, r.res, r.built)
    /\ calls' = calls + 1
    /\ UNCHANGED <<contexts, default, dist_places, dist_fs, prefix_fs, first,
                   notCtx>>

NextCtx ==
    \/ Register
    \/ Unregister
    \/ ContextCall
    \/ DistributionDefault
    \/ PrefixDefault

(***************************************************************************)
(* Validation.  A directory is given by what each name in it leads to: a   *)
(* directory, a regular file with or without the executable permission,    *)
(* nothing, or a symbolic link that loops.                                 *)
(***************************************************************************)
Kinds == {"dir", "file", "exec", "absent", "loop"}

\* Path.is_dir, Path.is_file: false when the name does not exist or loops
is_dir(kind)  == kind = "dir"
is_file(kind) == kind \in {"file", "exec"}

\* util.is_flagexec: Path.resolve() raises RuntimeError on a symbolic link
\* that loops
is_flagexec(kind) ==
    IF kind = "loop" THEN [exc |-> "RuntimeError", res |-> FALSE]
    ELSE [exc |-> "none", res |-> is_file(kind) /\ kind = "exec"]

required_dirs == <<"bin", "lib", "lib64", "share">>
required_bins == <<"bin/wine", "bin/wine64", "bin/wineserver", "bin/wine-preloader",
                   "bin/wine64-preloader">>

\* all(is_flagexec(...) for _bin in required_bins): the first false ends it
RECURSIVE allBinsFrom(_, _)
allBinsFrom(tree, i) ==
    IF i > Len(required_bins) THEN [exc |-> "none", res |-> TRUE]
    ELSE IF is_flagexec(tree[required_bins[i]]).exc # "none"
         THEN [exc |-> is_flagexec(tree[required_bins[i]]).exc, res |-> FALSE]
    ELSE IF ~is_flagexec(tree[required_bins[i]]).res
         THEN [exc |-> "none", res |-> FALSE]
    ELSE allBinsFrom(tree, i + 1)

\* Distribution.validate; a file below bin exists only if bin is a directory
Distribution_validate(tree) ==
    IF \E i \in 1..Len(required_dirs) : ~is_dir(tree[required_dirs[i]])
    THEN [exc |-> "none", res |-> FALSE]
    ELSE allBinsFrom(tree, 1)

prefix_dirs  == <<"dosdevices", "drive_c">>
prefix_files == <<"system.reg", "user.reg", "userdef.reg", ".update-timestamp">>

\* Prefix.validate; "." is the path itself
Prefix_validate(tree) ==
    IF ~is_dir(tree["."]) THEN [exc |-> "none", res |-> FALSE]
    ELSE IF \E i \in 1..Len(prefix_dirs) : ~is_dir(tree[prefix_dirs[i]])
    THEN [exc |-> "none", res |-> FALSE]
    ELSE [exc |-> "none",
          res |-> \A i \in 1..Len(prefix_files) : is_file(tree[prefix_files[i]])]

NoDistribution == [made |-> FALSE, winedist |-> "", is_proton |-> FALSE]

Constructed(winedist, proton) ==
    [exc |-> "none",
     obj |-> [made |-> TRUE, winedist |-> winedist, is_proton |-> proton]]

Failing(exc) == [exc |-> exc, obj |-> NoDistribution]

\* Distribution.__init__, once the marker test and the validations it may
\* call are known: marker is is_flagexec(root / "proton"), vdist, vfiles and
\* vroot are validate(root / "dist"), validate(root / "files"), validate(root)
Distribution_from(isdir, marker, vdist, vfiles, vroot) ==
    IF ~isdir THEN Failing("NotADirectoryError")
    ELSE IF marker.exc # "none" THEN Failing(marker.exc)
    ELSE IF marker.res
         THEN IF vdist.exc # "none" THEN Failing(vdist.exc)
              ELSE IF vdist.res THEN Constructed("root/dist", TRUE)
              ELSE IF vfiles.exc # "none" THEN Failing(vfiles.exc)
              ELSE IF vfiles.res THEN Constructed("root/files", TRUE)
              ELSE Failing("AttributeError")
    ELSE IF vroot.exc # "none" THEN Failing(vroot.exc)
    ELSE IF vroot.res THEN Constructed("root", FALSE)
    ELSE Failing("AttributeError")

\* Distribution(root), root being the directory r describes
Distribution(r) ==
    Distribution_from(r.isdir, is_flagexec(r.marker),
                      Distribution_validate(r.trees["root/dist"]),
                      Distribution_validate(r.trees["root/files"]),
                      Distribution_validate(r.trees["root"]))

(***************************************************************************)
(* The directories drawn: complete ones, empty ones, and complete ones     *)
(* with one name leading elsewhere.                                        *)
(***************************************************************************)
Range(seq) == { seq[i] : i \in 1..Len(seq) }

DistItems   == Range(required_dirs) \cup Range(required_bins)
PrefixItems == {"."} \cup Range(prefix_dirs) \cup Range(prefix_files)

ValidTree ==
    [x \in DistItems |-> IF x \in Range(required_dirs) THEN "dir" ELSE "exec"]
EmptyTree == [x \in DistItems |-> "absent"]

\* tree with name x leading to kind; nothing is below a bin that is no
\* directory
WithItem(tree, x, kind) ==
    [y \in DOMAIN tree |->
        IF y = x THEN kind
        ELSE IF x = "bin" /\ kind # "dir" /\ y \in Range(required_bins) THEN "absent"
        ELSE tree[y]]

OneDefect == { WithItem(ValidTree, x, kind) : x \in DistItems, kind \in Kinds }

ValidPrefix ==
    [x \in PrefixItems |->
        IF x \in {"."} \cup Range(prefix_dirs) THEN "dir" ELSE "file"]

\* nothing is in a path that is no directory
WithPrefixItem(tree, x, kind) ==
    [y \in DOMAIN tree |->
        IF y = x THEN kind
        ELSE IF x = "." /\ kind # "dir" THEN "absent"
        ELSE tree[y]]

PrefixTrees == { WithPrefixItem(ValidPrefix, x, kind) : x \in PrefixItems, kind \in Kinds }

Subdirs == {"root", "root/dist", "root/files"}

Root(isdir, mark, trees) == [isdir |-> isdir, marker |-> mark, trees |-> trees]

PlainRoot == Root(TRUE, "absent", [d \in Subdirs |-> IF d = "root" THEN ValidTree ELSE EmptyTree])
NotADir   == Root(FALSE, "absent", [d \in Subdirs |-> EmptyTree])

Roots ==
    {NotADir} \cup
    { Root(TRUE, mark, trees) :
         mark \in Kinds,
         trees \in { t \in [Subdirs -> OneDefect \cup {EmptyTree}] :
                       Cardinality({ d \in Subdirs : t[d] \notin {ValidTree, EmptyTree} }) <= 1 } }

NoDCall == [op |-> "none", arg |-> "", exc |-> "none", res |-> FALSE, obj |-> NoDistribution]

\* no directory is looked at
IdleDist ==
    /\ droot = PlainRoot
    /\ ptree = ValidPrefix
    /\ dlast = NoDCall

\* a directory meant as a distribution, or one meant as a prefix
InitDist ==
    /\ \/ droot \in Roots /\ ptree = ValidPrefix
       \/ droot = PlainRoot /\ ptree \in PrefixTrees
    /\ dlast = NoDCall

\* Distribution.validate(path), path being root or one of its two subdirectories
DistValidate ==
    /\ droot.isdir
    /\ \E d \in Subdirs :
          \E r \in {Distribution_validate(droot.trees[d])} :
             dlast' = [op |-> "Distribution.validate", arg |-> d, exc |-> r.exc,
                       res |-> r.res, obj |-> NoDistribution]
    /\ UNCHANGED <<droot, ptree, notDist>>

\* Prefix.validate(path)
PrefixValidate ==
    /\ \E r \in {Prefix_validate(ptree)} :
          dlast' = [op |-> "Prefix.validate", arg |-> ".", exc |-> r.exc,
                    res |-> r.res, obj |-> NoDistribution]
    /\ UNCHANGED <<droot, ptree, notDist>>

\* Distribution(root)
NewDistribution ==
    /\ \E r \in {Distribution(droot)} :
          dlast' = [op |-> "Distribution", arg |-> "root", exc |-> r.exc,
                    res |-> FALSE, obj |-> r.obj]
    /\ UNCHANGED <<droot, ptree, notDist>>

NextDist ==
    \/ DistValidate
    \/ PrefixValidate
    \/ NewDistribution

(***************************************************************************)
(* The calls made on the layer, with their arguments drawn from small      *)
(* sets.                                                                   *)
(***************************************************************************)
MaxLen == 2

Elems == {"a", "b"}

Lists == UNION {[1..n -> Elems] : n \in 0..MaxLen}

Scalars == {VBool(TRUE), VBool(FALSE), VStr(""), VStr("s"), VNone}

EnvKeys == {"WINEPREFIX", "ESYNC", "FOO"}

InputValues(k) ==
    CASE k = "FOO"   -> Scalars \cup {VList(l) : l \in Lists}
      [] k = "ESYNC" -> {VBool(TRUE), VBool(FALSE), VStr("s")}
      [] OTHER       -> {VStr("s")}

Dists == { [winedist |-> "/opt/wine",        is_proton |-> FALSE],
           [winedist |-> "/opt/proton/dist", is_proton |-> TRUE] }

PfxPath == "/home/u/.wine"

KwargsChoices == { <<>>,
                   <<Item("WINEPREFIX", VStr("s"))>>,
                   <<Item("FSYNC", VBool(TRUE))>>,
                   <<Item("FSYNC", VBool(FALSE))>> }

Call(op, key, val, exc) ==
    [op |-> op, key |-> key, val |-> val, exc |-> exc, tick |-> 1 - last.tick]

InitEnv ==
    /\ layer = NoLayer
    /\ list_separator = <<>>
    /\ last = [op |-> "none", key |-> "", val |-> VNone, exc |-> "none", tick |-> 0]

NewEnvMapping ==
    /\ layer.cls = "none"
    /\ layer' = EnvMapping_init(<<>>)
    /\ last' = Call("init", "", VNone, "none")
    /\ UNCHANGED <<list_separator, notEnv>>

NewWineContext ==
    \E dist \in Dists, kwargs \in KwargsChoices :
        LET sep == add_list_separator(list_separator, "WINEDLLOVERRIDES", VStr(";"))
            r   == WineContext_init(dist, PfxPath, kwargs)
        IN  /\ layer.cls = "none"
            /\ list_separator' = sep.seps
            /\ layer' = IF r.exc = "none" THEN r.layer ELSE NoLayer
            /\ last' = Call("init", "", VNone, r.exc)
            /\ UNCHANGED notEnv

SetAttr ==
    \E k \in EnvKeys : \E v \in InputValues(k) :
        LET r == setattr(layer, k, v)
        IN  /\ layer.cls # "none"
            /\ layer' = r.layer
            /\ last' = Call("setattr", k, v, r.exc)
            /\ UNCHANGED <<list_separator, notEnv>>

SetItem ==
    \E k \in EnvKeys : \E v \in InputValues(k) :
        LET r == setitem(layer, k, v)
        IN  /\ layer.cls # "none"
            /\ layer' = r.layer
            /\ last' = Call("setitem", k, v, r.exc)
            /\ UNCHANGED <<list_separator, notEnv>>

Unset ==
    \E k \in EnvKeys :
        LET r == unset(layer, k)
        IN  /\ layer.cls # "none"
            /\ layer' = r.layer
            /\ last' = Call("unset", k, VNone, r.exc)
            /\ UNCHANGED <<list_separator, notEnv>>

NextEnv ==
    \/ NewEnvMapping
    \/ NewWineContext
    \/ SetAttr
    \/ SetItem
    \/ Unset

(***************************************************************************)
(* A layer and its copy.  Both objects take the same calls; a list that    *)
(* is one Python object in both is changed in both by an in-place append.  *)
(***************************************************************************)
\* util.assert_type(obj, list) on the clear argument
assert_type(obj, cls) == IF obj.t = cls THEN "none" ELSE "ValueError"

\* EnvMapping.update(other, clear): clear is None (no list given), or it
\* goes through assert_type before the loop starts.
EnvMapping_update(L, other, clear) ==
    IF clear.t = "none" THEN update(L, other, <<>>)
    ELSE IF assert_type(clear, "list") # "none"
         THEN Raised(L, assert_type(clear, "list"))
         ELSE update(L, other, clear.l)

\* the names a call of update stores an object under: every unprotected
\* name of other up to the one that raised
RECURSIVE storedFrom(_, _, _, _)
storedFrom(L, other, clear, i) ==
    IF i > Len(other) THEN {}
    ELSE LET key == other[i].k
         IN  IF key \in L.protected THEN storedFrom(L, other, clear, i + 1)
             ELSE IF InSeq(key, clear) /\ ~HasKey(L.dict, key) THEN {}
             ELSE LET L1 == IF InSeq(key, clear) /\ Get(L.dict, key).t = "list"
                            THEN [L EXCEPT !.dict = Put(@, key, VList(<<>>))]
                            ELSE L
                      r  == setattr(L1, key, other[i].v)
                  IN  IF r.exc # "none"
                      THEN IF L1 # L THEN {key} ELSE {}
                      ELSE {key} \cup storedFrom(r.layer, other, clear, i + 1)

RECURSIVE PutAll(_, _, _)
PutAll(d, items, i) ==
    IF i > Len(items) THEN d ELSE PutAll(Put(d, items[i].k, items[i].v), items, i + 1)

\* self.__class__(**self._kwargs): EnvMapping(**kwargs), or WineContext
\* with the dist and the prefix the layer was built on
reconstruct(L) ==
    IF L.cls = "WineContext"
    THEN WineContext_init([winedist |-> Get(L.dict, "WINEDIST").s,
                           is_proton |-> L.is_proton],
                          Get(L.dict, "WINEPREFIX").s, <<>>).layer
    ELSE EnvMapping_init(L.kwargs)

\* the names under which copy() stores the object self holds, not a new one
\* (copy.copy builds a new list; the other values held are immutable)
shared_by_assignment(L) ==
    {L.dict[i].k : i \in {j \in 1..Len(L.dict) : L.dict[j].v.t = "list"}}

shared_by_copy(L) == {}

\* EnvMapping.copy
copy(L) == [reconstruct(L) EXCEPT !.dict = PutAll(@, L.dict, 1)]

\* EnvMapping.__eq__: the two dicts hold the same items, in any order
EnvMapping_eq(L, other) == Range(L.dict) = Range(other)

\* getattr(L, name).append(e) on a held list
append_in_place(L, name, e) ==
    [L EXCEPT !.dict = Put(@, name, VList(Get(L.dict, name).l \o <<e>>))]

CopyKeys == {"WINEPREFIX", "FOO", "BAR", "TERM"}

CopyValues(k) ==
    CASE k = "FOO" -> {VStr("s"), VList(<<"a">>), VList(<<"b", "a">>)}
      [] OTHER     -> {VStr("s")}

OtherDicts ==
    { <<>>,
      <<Item("FOO", VList(<<"a", "a">>))>>,
      <<Item("FOO", VStr("s")), Item("BAR", VStr("s"))>>,
      <<Item("WINEPREFIX", VStr("s")), Item("FOO", VList(<<"b", "a">>))>>,
      <<Item("BAR", VList(<<"b">>)), Item("FOO", VList(<<"a">>))>>,
      <<Item("WINEPATH", VList(<<"a">>)), Item("FOO", VStr("s"))>> }

ClearArgs == {VNone, VList(<<"FOO">>), VList(<<"BAR", "FOO">>), VStr("FOO")}

Targets == {"self", "duply"}

\* how many calls are followed
MaxOps == 3

Obj(t) == IF t = "self" THEN self ELSE duply

NoUCall ==
    [op |-> "none", target |-> "", key |-> "", val |-> VNone, other |-> <<>>,
     clear |-> VNone, exc |-> "none", n |-> 0]

UCall(op, t, key, val, other, clear, exc) ==
    [op |-> op, target |-> t, key |-> key, val |-> val, other |-> other,
     clear |-> clear, exc |-> exc, n |-> ulast.n + 1]

IdleCopy ==
    /\ self = NoLayer
    /\ duply = NoLayer
    /\ aliased = {}
    /\ ulast = NoUCall

\* self is a layer as its constructor leaves it
InitCopy ==
    /\ self \in {EnvMapping_init(<<>>)}
                 \cup {WineContext_init(d, PfxPath, <<>>).layer : d \in Dists}
    /\ duply = NoLayer
    /\ aliased = {}
    /\ ulast = NoUCall

\* the step a call on object t makes: r is what the call returns, stored
\* the names it bound to a new object
Applied(t, r, stored) ==
    /\ self'    = IF t = "self"  THEN r.layer ELSE self
    /\ duply'   = IF t = "duply" THEN r.layer ELSE duply
    /\ aliased' = aliased \ stored

Copy ==
    /\ ulast.n < MaxOps
    /\ self.cls # "none"
    /\ duply' = copy(self)
    /\ aliased' = shared_by_copy(self)
    /\ ulast' = UCall("copy", "self", "", VNone, <<>>, VNone, "none")
    /\ UNCHANGED <<self, notCopy>>

CopySetAttr ==
    \E t \in Targets, k \in CopyKeys : \E v \in CopyValues(k) :
      \E r \in {setattr(Obj(t), k, v)} :
        /\ ulast.n < MaxOps
        /\ Obj(t).cls # "none"
        /\ Applied(t, r, IF r.exc = "none" THEN {k} ELSE {})
        /\ ulast' = UCall("setattr", t, k, v, <<>>, VNone, r.exc)
        /\ UNCHANGED notCopy

CopyUnset ==
    \E t \in Targets, k \in CopyKeys :
      \E r \in {unset(Obj(t), k)} :
        /\ ulast.n < MaxOps
        /\ Obj(t).cls # "none"
        /\ Applied(t, r, IF r.exc = "none" /\ k \notin Obj(t).protected
                         THEN {k} ELSE {})
        /\ ulast' = UCall("unset", t, k, VNone, <<>>, VNone, r.exc)
        /\ UNCHANGED notCopy

\* update with a dict, or with the other layer (other = other.__dict__)
Update ==
    \E t \in Targets, clear \in ClearArgs :
      \E other \in OtherDicts \cup {Obj(CHOOSE u \in Targets : u # t).dict} :
        \E r \in {EnvMapping_update(Obj(t), other, clear)} :
          /\ ulast.n < MaxOps
          /\ Obj(t).cls # "none"
          /\ Applied(t, r, IF clear.t = "str" THEN {}
                           ELSE storedFrom(Obj(t), other,
                                           IF clear.t = "list" THEN clear.l ELSE <<>>, 1))
          /\ ulast' = UCall("update", t, "", VNone, other, clear, r.exc)
          /\ UNCHANGED notCopy

\* L.NAME.append(e): the list object is changed where it is, in every
\* layer that holds it
AppendInPlace ==
    \E t \in Targets, k \in {"FOO", "PATH"}, e \in {"c"} :
        /\ ulast.n < MaxOps
        /\ Obj(t).cls # "none"
        /\ HasKey(Obj(t).dict, k)
        /\ Get(Obj(t).dict, k).t = "list"
        /\ ~InSeq(e, Get(Obj(t).dict, k).l)
        /\ self'  = IF t = "self" \/ k \in aliased
                    THEN append_in_place(self, k, e) ELSE self
        /\ duply' = IF t = "duply" \/ k \in aliased
                    THEN append_in_place(duply, k, e) ELSE duply
        /\ ulast' = UCall("append", t, k, VStr(e), <<>>, VNone, "none")
        /\ UNCHANGED <<aliased, notCopy>>

NextCopy ==
    \/ Copy
    \/ CopySetAttr
    \/ CopyUnset
    \/ Update
    \/ AppendInPlace

\* the objects of the other state machines, never made
IdleSep ==
    /\ layers = <<NoLayer, NoLayer>>
    /\ registered = {}
    /\ slast = [op |-> "none", i |-> 0, key |-> "", sep |-> VNone, exc |-> "none", n |-> 0]

IdleCls ==
    /\ wpath = [cls |-> "none", text |-> <<>>]
    /\ wres = [made |-> FALSE, util |-> FALSE, path |-> FALSE]

IdleProg ==
    /\ prog = [cls |-> "none"]
    /\ pcontext = NoLayer
    /\ glast = [op |-> "none", usage |-> FALSE, mode |-> "", exc |-> "none", res |-> <<>>,
                n |-> 0, ctxops |-> 0]

IdleProc ==
    /\ state = "NOT_STARTED"
    /\ process = "None"
    /\ exit_code = VNone
    /\ starts = 0
    /\ rlast = [op |-> "none", exc |-> "none", res |-> VNone, n |-> 0]

IdleRest == IdleSep /\ IdleCls /\ IdleProg /\ IdleProc

CopyStart == InitCopy /\ InitEnv /\ IdlePath /\ IdleCtx /\ IdleDist /\ IdleRest

SpecCopy == CopyStart /\ [][NextCopy]_vars


(***************************************************************************)
(* Two layers and the separator table.  EnvMapping.__list_separator is an  *)
(* attribute of the class: add_list_separator writes it and env reads it,  *)
(* whatever the instance.                                                  *)
(***************************************************************************)
Slots == 1..2

SepKeys == {"PATH", "WINEDLLOVERRIDES"}

Separators == {VStr(","), VStr("ab"), VStr(""), VInt(1)}

SCall(op, i, key, sep, exc) ==
    [op |-> op, i |-> i, key |-> key, sep |-> sep, exc |-> exc, n |-> 1 - slast.n]

\* no layer is constructed yet
InitSep == IdleSep

\* EnvMapping() or WineContext(dist, prefix) in an empty slot
NewLayer ==
    \E i \in Slots, cls \in {"EnvMapping", "WineContext"} :
      \E r \in {IF cls = "EnvMapping" THEN Done(EnvMapping_init(<<>>))
                ELSE WineContext_init(CHOOSE d \in Dists : ~d.is_proton, PfxPath, <<>>)} :
        /\ layers[i].cls = "none"
        /\ layers' = [layers EXCEPT ![i] = r.layer]
        /\ list_separator' =
             IF cls = "EnvMapping" THEN list_separator
             ELSE add_list_separator(list_separator, "WINEDLLOVERRIDES", VStr(";")).seps
        /\ slast' = SCall("init", i, "", VNone, r.exc)
        /\ UNCHANGED <<registered, notSep>>

\* layer.NAME = ['a', 'b']
SepSetAttr ==
    \E i \in Slots, k \in SepKeys :
      \E r \in {setattr(layers[i], k, VList(<<"a", "b">>))} :
        /\ layers[i].cls # "none"
        /\ layers' = [layers EXCEPT ![i] = r.layer]
        /\ slast' = SCall("setattr", i, k, VNone, r.exc)
        /\ UNCHANGED <<list_separator, registered, notSep>>

\* layer.add_list_separator(key, sep).  The two slots are alike, so the
\* calls are followed on the layer of the first one; the other layer is
\* made before or after them.
AddListSeparator ==
    \E i \in {1}, k \in SepKeys, sep \in Separators :
      \E r \in {add_list_separator(list_separator, k, sep)} :
        /\ layers[i].cls # "none"
        /\ list_separator' = r.seps
        /\ registered' = IF r.exc = "none" THEN registered \cup {<<i, k>>}
                         ELSE registered
        /\ slast' = SCall("add_list_separator", i, k, sep, r.exc)
        /\ UNCHANGED <<layers, notSep>>

\* layer.env
Export ==
    \E i \in Slots :
        /\ layers[i].cls # "none"
        /\ slast' = SCall("env", i, "", VNone, env(layers[i], list_separator).exc)
        /\ UNCHANGED <<layers, list_separator, registered, notSep>>

NextSep ==
    \/ NewLayer
    \/ SepSetAttr
    \/ AddListSeparator
    \/ Export

SepStart == InitSep /\ InitEnv /\ IdlePath /\ IdleCtx /\ IdleDist /\ IdleCopy
            /\ IdleCls /\ IdleProg /\ IdleProc

SpecSep == SepStart /\ [][NextSep]_vars

\* ---------------------------------------------------------------------------
\* The two Windows-path classifiers: util.is_windows_path (util.py 39-40)
\* and path.is_windows_path (path.py 80-101), on a POSIX host.
\* A text is a sequence of one-character strings; an argument is a text
\* given as a plain str or wrapped in one of the pathlib classes.
\* ---------------------------------------------------------------------------
MaxText == 4

Alphabet == {"c", "1", ":", "/", "\\"}

WordChars == {"c", "1"}

PathClasses == {"str", "PosixPath", "PurePosixPath", "PureWindowsPath"}

Texts == UNION {[1..n -> Alphabet] : n \in 0..MaxText}

Arguments == [cls : PathClasses, text : Texts]

\* pathlib: the components of a POSIX path, empty ones dropped
RECURSIVE PartsFrom(_, _, _)
PartsFrom(text, i, cur) ==
    IF i > Len(text)
    THEN IF cur = <<>> THEN <<>> ELSE <<cur>>
    ELSE IF text[i] = "/"
         THEN (IF cur = <<>> THEN <<>> ELSE <<cur>>) \o PartsFrom(text, i + 1, <<>>)
         ELSE PartsFrom(text, i + 1, Append(cur, text[i]))

\* pathlib: exactly two leading slashes are kept, any other number is one
PosixRoot(text) ==
    IF Len(text) >= 2 /\ text[1] = "/" /\ text[2] = "/" /\ (Len(text) = 2 \/ text[3] # "/")
    THEN <<"/", "/">>
    ELSE IF Len(text) >= 1 /\ text[1] = "/" THEN <<"/">> ELSE <<>>

RECURSIVE JoinParts(_, _)
JoinParts(parts, i) ==
    IF i > Len(parts) THEN <<>>
    ELSE IF i = Len(parts) THEN parts[i]
    ELSE parts[i] \o <<"/">> \o JoinParts(parts, i + 1)

\* str(path): a str is itself, a POSIX path is normalised (repeated and
\* trailing slashes go, the empty path is "."), a Windows path turns
\* its slashes round
PathStr(w) ==
    CASE w.cls = "str" -> w.text
      [] w.cls \in {"PosixPath", "PurePosixPath"} ->
            LET s == PosixRoot(w.text) \o JoinParts(PartsFrom(w.text, 1, <<>>), 1)
            IN  IF s = <<>> THEN <<".">> ELSE s
      [] OTHER -> [i \in 1..Len(w.text) |-> IF w.text[i] = "/" THEN "\\" ELSE w.text[i]]

\* path.py 64-77: the regular expression ^\w:[/\\] on str(path)
split_drive(w) ==
    LET text == PathStr(w)
    IN  IF Len(text) >= 3 /\ text[1] \in WordChars /\ text[2] = ":" /\ text[3] \in {"/", "\\"}
        THEN <<SubSeq(text, 1, 2), SubSeq(text, 3, Len(text))>>
        ELSE <<<<>>, text>>

on_windows == FALSE

\* path.py 80-101
path_is_windows_path(w) ==
    \/ w.cls = "PureWindowsPath"
    \/ split_drive(w)[1] # <<>>
    \/ (on_windows /\ w.cls = "str")

\* util.py 39-40 on an argument: Path(path).drive is "" on a POSIX host
util_is_windows_path(w) ==
    is_windows_path([flavour |-> IF w.cls = "PureWindowsPath" THEN "win" ELSE "posix"])

InitCls ==
    /\ wpath \in Arguments
    /\ wres = [made |-> FALSE, util |-> FALSE, path |-> FALSE]

Classify ==
    /\ ~wres.made
    /\ wres' = [made |-> TRUE, util |-> util_is_windows_path(wpath), path |-> path_is_windows_path(wpath)]
    /\ UNCHANGED <<wpath, notCls>>

NextCls == Classify

ClsStart == InitCls /\ InitEnv /\ IdlePath /\ IdleCtx /\ IdleDist /\ IdleCopy /\ IdleSep /\ IdleProg /\ IdleProc

SpecCls == ClsStart /\ [][NextCls]_vars

\* ---------------------------------------------------------------------------
\* Programs launched through a context: subprocess.Program
\* (subprocess.py 44-132) and program.WineProgram (program.py 134-178).
\* A program is a record of its slots; a slot its class does not declare
\* holds NoSlot.  The context is the layer the program was made with.
\* ---------------------------------------------------------------------------
ProgramClasses == {"Program", "WineProgram"}

Modes == {"runinprefix", "run", "exec"}

PrependChoices == {VNone, VStr(""), VStr("gamemoderun")}

NoSlot == "<no slot>"

MaxCtxOps == 2

CtxKeys == {"WINELOADER", "FOO"}

SteamExe == "c:\\windows\\system32\\steam.exe"

\* __slots__ of the two classes (subprocess.py 45-52, program.py 49, 135-139)
ProgramSlots(cls) ==
    IF cls = "Program"
    THEN {"exe", "use_proton", "use_steam", "proton_mode", "prepend_command", "context"}
    ELSE {"arguments", "prepend_command", "env", "use_proton", "use_steam", "proton_runmode"}

\* subprocess.Program.__init__ ; program.Program.__new__ and WineProgram.__new__
Program_init(cls) ==
    [cls |-> cls,
     exe |-> IF cls = "Program" THEN PfxPath \o "/drive_c/app.exe" ELSE "c:\\app.exe",
     use_proton |-> FALSE,
     use_steam |-> FALSE,
     proton_mode |-> IF cls = "Program" THEN "runinprefix" ELSE NoSlot,
     proton_runmode |-> IF cls = "Program" THEN NoSlot ELSE "runinprefix",
     prepend_command |-> VNone]

\* context.dist, context.prefix.root
context_dist(ctx) == CHOOSE d \in Dists : d.is_proton = ctx.is_proton

prefix_root == PfxPath

\* dist.loader, dist.root and str(dist.proton)
dist_loader(d) == d.winedist \o "/bin/wine64"

dist_root(d) == IF d.is_proton THEN "/opt/proton" ELSE d.winedist

dist_proton(d) == IF d.is_proton THEN dist_root(d) \o "/proton" ELSE "None"

PResult(p, ctx, e) == [prog |-> p, context |-> ctx, exc |-> e]

\* Program.use_proton (subprocess.py 75-86) and WineProgram.use_proton
\* (program.py 165-175): the same statements; the last one assigns
\* self._proton_mode, which raises AttributeError on a class without that slot
use_proton(p, ctx, usage, mode) ==
    LET on == IF ctx.is_proton THEN usage ELSE FALSE
        p1 == [p EXCEPT !.use_proton = on]
        r  == setattr(ctx, "STEAM_COMPAT_DATA_PATH", VPath(prefix_root))
        c2 == [r.layer EXCEPT !.dict =
                  Put(@, "WINELOADER", VStr(context_dist(ctx).winedist \o "/bin/wine"))]
    IN  IF ~on THEN PResult(p1, ctx, "none")
        ELSE IF r.exc # "none" THEN PResult(p1, r.layer, r.exc)
        ELSE IF mode \notin {"runinprefix", "run"} THEN PResult(p1, c2, "none")
        ELSE IF "proton_mode" \in ProgramSlots(p.cls)
             THEN PResult([p1 EXCEPT !.proton_mode = mode], c2, "none")
             ELSE PResult(p1, c2, "AttributeError")

use_steam(p, usage) == [p EXCEPT !.use_steam = usage]

prepend_command(p, command) == [p EXCEPT !.prepend_command = command]

\* truth value of self._prepend_command
IsSet(v) == v.t = "str" /\ v.s # ""

\* subprocess.Program.command (subprocess.py 115-129)
Program_command(p, ctx) ==
    LET d    == context_dist(ctx)
        cmd1 == IF ~p.use_proton THEN <<dist_loader(d)>>
                ELSE <<dist_proton(d), p.proton_mode>>
        cmd2 == IF p.use_steam /\ ~p.use_proton THEN Append(cmd1, SteamExe) ELSE cmd1
        cmd3 == IF IsSet(p.prepend_command) THEN <<p.prepend_command.s>> \o cmd2 ELSE cmd2
    IN  Append(cmd3, p.exe)

\* program.Program._command (program.py 69-73)
Program__command(p) ==
    LET cmd == <<p.exe>>
    IN  IF IsSet(p.prepend_command) THEN <<p.prepend_command.s>> \o cmd ELSE cmd

\* program.WineProgram._command (program.py 151-163)
WineProgram__command(p, ctx) ==
    LET d     == context_dist(ctx)
        cmd   == Program__command(p)
        xcmd1 == IF ~p.use_proton THEN <<dist_loader(d)>>
                 ELSE <<dist_proton(d), p.proton_runmode>>
        xcmd2 == IF p.use_steam /\ ~p.use_proton THEN Append(xcmd1, SteamExe) ELSE xcmd1
        xcmd3 == IF IsSet(p.prepend_command) THEN <<p.prepend_command.s>> \o xcmd2 ELSE xcmd2
    IN  xcmd3 \o cmd

command(p, ctx) ==
    IF p.cls = "Program" THEN Program_command(p, ctx) ELSE WineProgram__command(p, ctx)

GCall(op, usage, mode, exc, res) ==
    [op |-> op, usage |-> usage, mode |-> mode, exc |-> exc, res |-> res,
     n |-> 1 - glast.n, ctxops |-> glast.ctxops]

InitProg == IdleProg

\* WineContext(dist, prefix) and a program of either class made with it
NewProgram ==
    \E cls \in ProgramClasses, dist \in Dists :
      \E r \in {WineContext_init(dist, PfxPath, <<>>)} :
        /\ prog.cls = "none"
        /\ r.exc = "none"
        /\ pcontext' = r.layer
        /\ prog' = Program_init(cls)
        /\ glast' = GCall("init", FALSE, "", "none", <<>>)
        /\ UNCHANGED notProg

\* program.use_proton(usage, mode)
UseProton ==
    /\ prog.cls # "none"
    /\ \E usage \in BOOLEAN, mode \in Modes :
      \E r \in {use_proton(prog, pcontext, usage, mode)} :
        /\ prog' = r.prog
        /\ pcontext' = r.context
        /\ glast' = GCall("use_proton", usage, mode, r.exc, <<>>)
        /\ UNCHANGED notProg

\* program.use_steam(usage)
UseSteam ==
    \E usage \in BOOLEAN :
        /\ prog.cls # "none"
        /\ prog' = use_steam(prog, usage)
        /\ glast' = GCall("use_steam", usage, "", "none", <<>>)
        /\ UNCHANGED <<pcontext, notProg>>

\* program.prepend_command(command)
PrependCommand ==
    \E c \in PrependChoices :
        /\ prog.cls # "none"
        /\ prog' = prepend_command(prog, c)
        /\ glast' = GCall("prepend_command", FALSE, "", "none", <<>>)
        /\ UNCHANGED <<pcontext, notProg>>

\* program.command / program._command()
Command ==
    /\ prog.cls # "none"
    /\ glast' = GCall("command", FALSE, "", "none", command(prog, pcontext))
    /\ UNCHANGED <<prog, pcontext, notProg>>

\* context.NAME = value, context[NAME] = value
CtxSetAttr ==
    \E k \in CtxKeys, how \in {"attr", "item"} :
      \E r \in {IF how = "attr" THEN setattr(pcontext, k, VStr("x"))
                ELSE setitem(pcontext, k, VStr("x"))} :
        /\ prog.cls # "none"
        /\ glast.ctxops < MaxCtxOps
        /\ pcontext' = r.layer
        /\ glast' = [GCall("setattr", FALSE, "", r.exc, <<>>) EXCEPT !.ctxops = @ + 1]
        /\ UNCHANGED <<prog, notProg>>

\* context.update({NAME: value})
CtxUpdate ==
    \E k \in CtxKeys :
      \E r \in {EnvMapping_update(pcontext, <<Item(k, VStr("x"))>>, VNone)} :
        /\ prog.cls # "none"
        /\ glast.ctxops < MaxCtxOps
        /\ pcontext' = r.layer
        /\ glast' = [GCall("update", FALSE, "", r.exc, <<>>) EXCEPT !.ctxops = @ + 1]
        /\ UNCHANGED <<prog, notProg>>

\* context.unset(NAME), del context[NAME]
CtxUnset ==
    \E k \in CtxKeys, how \in {"unset", "del"} :
      \E r \in {IF how = "unset" THEN unset(pcontext, k) ELSE delitem(pcontext, k)} :
        /\ prog.cls # "none"
        /\ glast.ctxops < MaxCtxOps
        /\ pcontext' = r.layer
        /\ glast' = [GCall("unset", FALSE, "", r.exc, <<>>) EXCEPT !.ctxops = @ + 1]
        /\ UNCHANGED <<prog, notProg>>

\* context.setdefault(NAME, value)
CtxSetDefault ==
    \E k \in CtxKeys :
      \E r \in {setdefault(pcontext, k, VStr("x"))} :
        /\ prog.cls # "none"
        /\ glast.ctxops < MaxCtxOps
        /\ pcontext' = r.layer
        /\ glast' = [GCall("setdefault", FALSE, "", r.exc, <<>>) EXCEPT !.ctxops = @ + 1]
        /\ UNCHANGED <<prog, notProg>>

\* context.pop(NAME)
CtxPop ==
    \E k \in CtxKeys :
      \E r \in {pop(pcontext, k)} :
        /\ prog.cls # "none"
        /\ glast.ctxops < MaxCtxOps
        /\ pcontext' = r.layer
        /\ glast' = [GCall("pop", FALSE, "", r.exc, <<>>) EXCEPT !.ctxops = @ + 1]
        /\ UNCHANGED <<prog, notProg>>

\* context.popitem()
CtxPopItem ==
    \E r \in {popitem(pcontext)} :
        /\ prog.cls # "none"
        /\ glast.ctxops < MaxCtxOps
        /\ pcontext' = r.layer
        /\ glast' = [GCall("popitem", FALSE, "", r.exc, <<>>) EXCEPT !.ctxops = @ + 1]
        /\ UNCHANGED <<prog, notProg>>

\* context.clear()
CtxClear ==
    /\ prog.cls # "none"
    /\ glast.ctxops < MaxCtxOps
    /\ pcontext' = clear_dict(pcontext).layer
    /\ glast' = [GCall("clear", FALSE, "", "none", <<>>) EXCEPT !.ctxops = @ + 1]
    /\ UNCHANGED <<prog, notProg>>

NextProg ==
    \/ NewProgram \/ UseProton \/ UseSteam \/ PrependCommand \/ Command
    \/ CtxSetAttr \/ CtxUpdate \/ CtxUnset \/ CtxSetDefault
    \/ CtxPop \/ CtxPopItem \/ CtxClear

ProgStart == InitProg /\ InitEnv /\ IdlePath /\ IdleCtx /\ IdleDist /\ IdleCopy /\ IdleSep /\ IdleCls /\ IdleProc

SpecProg == ProgStart /\ [][NextProg]_vars

\* ---------------------------------------------------------------------------
\* subprocess.Process (subprocess.py 145-300): one external process.
\* state, process and exit_code are the slots _state, _process and
\* _exit_code; starts counts the child processes the object has started.
\* What the operating system does with a child is drawn: subprocess.run
\* returns an exit code or, given a timeout, raises TimeoutExpired after the
\* child was started and killed; Popen returns a child or raises; wait
\* returns a code, returns None or raises TimeoutExpired.
\* ---------------------------------------------------------------------------
MaxStarts == 3

RunOutcomes == {"0", "1", "-9", "TimeoutExpired"}

PopenOutcomes == {"child", "CalledProcessError", "FileNotFoundError"}

WaitOutcomes == {"0", "1", "-9", "None", "TimeoutExpired"}

CodeOf(o) == CASE o = "0" -> 0 [] o = "1" -> 1 [] OTHER -> -9

Proc(s, p, e) == [state |-> s, process |-> p, exit_code |-> e]

RResult(P, exc, res, started) == [proc |-> P, exc |-> exc, res |-> res, started |-> started]

\* Process.run (subprocess.py 183-211)
run(P, outcome) ==
    IF P.process # "None" \/ P.state # "NOT_STARTED"
    THEN RResult(P, "RuntimeError", VNone, 0)
    ELSE IF outcome = "TimeoutExpired"
         THEN RResult(P, "TimeoutExpired", VNone, 1)
         ELSE RResult(Proc("STOPPED", P.process, VInt(CodeOf(outcome))), "none",
                      VInt(CodeOf(outcome)), 1)

\* Process.popen (subprocess.py 213-240)
popen(P, outcome) ==
    IF P.process # "None" THEN RResult(P, "RuntimeError", VNone, 0)
    ELSE IF P.state = "STOPPED" THEN RResult(P, "RuntimeError", VNone, 0)
    ELSE IF outcome = "CalledProcessError"
         THEN RResult(Proc("STOPPED", "None", P.exit_code), "CalledProcessError", VNone, 0)
    ELSE IF outcome = "FileNotFoundError"
         THEN RResult(P, "FileNotFoundError", VNone, 0)
    ELSE RResult(Proc("RUNNING", "Popen", P.exit_code), "none", VNone, 1)

\* Process.wait (subprocess.py 283-300), on a POSIX host
wait(P, outcome) ==
    IF P.process = "None" THEN RResult(P, "none", VNone, 0)
    ELSE IF outcome = "TimeoutExpired" THEN RResult(P, "TimeoutExpired", VNone, 0)
    ELSE IF outcome = "None"
         THEN RResult(Proc("STOPPED", P.process, VNone), "none", VNone, 0)
    ELSE RResult(Proc(P.state, P.process, VInt(CodeOf(outcome))), "none",
                 VBool(CodeOf(outcome) >= 0), 0)

RCall(op, r) == [op |-> op, exc |-> r.exc, res |-> r.res, n |-> 1 - rlast.n]

\* Process(program): _process None, _exit_code None, _state NOT_STARTED
InitProc == IdleProc

\* process.run(...)
Run ==
    \E o \in RunOutcomes :
      \E r \in {run(Proc(state, process, exit_code), o)} :
        /\ starts + r.started <= MaxStarts
        /\ state' = r.proc.state
        /\ process' = r.proc.process
        /\ exit_code' = r.proc.exit_code
        /\ starts' = starts + r.started
        /\ rlast' = RCall("run", r)
        /\ UNCHANGED notProc

\* process.popen(...)
Popen ==
    \E o \in PopenOutcomes :
      \E r \in {popen(Proc(state, process, exit_code), o)} :
        /\ starts + r.started <= MaxStarts
        /\ state' = r.proc.state
        /\ process' = r.proc.process
        /\ exit_code' = r.proc.exit_code
        /\ starts' = starts + r.started
        /\ rlast' = RCall("popen", r)
        /\ UNCHANGED notProc

\* process.wait(timeout)
Wait ==
    \E o \in WaitOutcomes :
      \E r \in {wait(Proc(state, process, exit_code), o)} :
        /\ state' = r.proc.state
        /\ process' = r.proc.process
        /\ exit_code' = r.proc.exit_code
        /\ rlast' = RCall("wait", r)
        /\ UNCHANGED <<starts, notProc>>

NextProc == Run \/ Popen \/ Wait

ProcStart == InitProc /\ InitEnv /\ IdlePath /\ IdleCtx /\ IdleDist /\ IdleCopy /\ IdleSep /\ IdleCls /\ IdleProg

SpecProc == ProcStart /\ [][NextProc]_vars

EnvStart == InitEnv /\ IdlePath /\ IdleCtx /\ IdleDist /\ IdleCopy /\ IdleRest

SpecEnv == EnvStart /\ [][NextEnv]_vars

PathStart == InitPath /\ InitEnv /\ IdleCtx /\ IdleDist /\ IdleCopy /\ IdleRest

SpecPath == PathStart /\ [][NextPath]_vars

CtxStart == InitCtx /\ InitEnv /\ IdlePath /\ IdleDist /\ IdleCopy /\ IdleRest

SpecCtx == CtxStart /\ [][NextCtx]_vars

DistStart == InitDist /\ InitEnv /\ IdlePath /\ IdleCtx /\ IdleCopy /\ IdleRest

SpecDist == DistStart /\ [][NextDist]_vars

(***************************************************************************)
(* Properties of the environment layer, stated on SpecEnv.                 *)
(***************************************************************************)
Assigned == last'.tick # last.tick /\ last'.op \in {"setattr", "setitem"}

\* C1: on a layer whose protected set contains K, assigning K by attribute
\* or by item while the layer is locked raises AttributeError and leaves
\* the layer as it was; with the lock off, which is the seeding phase of
\* WineContext.__init__, the same assignment succeeds and stores the value:
\* construction never raises and the built WineContext holds every
\* protected name with the value it was seeded with.
C1_ProtectedKey ==
    /\ [][ (Assigned /\ last'.key \in layer.protected /\ layer.lock)
             => (last'.exc = "AttributeError" /\ layer' = layer) ]_envVars
    /\ [](last.op = "init" =>
            /\ last.exc = "none"
            /\ (layer.cls = "WineContext" =>
                 /\ layer.lock
                 /\ layer.protected = WineProtected
                 /\ \E dist \in Dists :
                      /\ dist.is_proton = layer.is_proton
                      /\ \A i \in 1..Len(WineSeeds(dist, PfxPath)) :
                           LET seed == WineSeeds(dist, PfxPath)[i]
                           IN  HasKey(layer.dict, seed.k)
                               /\ Get(layer.dict, seed.k) = seed.v))

C1_Witness ==
    /\ layer.cls = "WineContext"
    /\ last.op = "setitem"
    /\ last.key = "WINEPREFIX"
    /\ last.exc = "AttributeError"
    /\ Get(layer.dict, "WINEPREFIX") = VPath(PfxPath)

\* r holds the elements of s once each, in the order of their first
\* occurrence in s.
FirstIndex(x, s) == CHOOSE i \in 1..Len(s) : s[i] = x /\ \A j \in 1..(i - 1) : s[j] # x

IsFirstOccurrences(r, s) ==
    /\ {r[i] : i \in 1..Len(r)} = {s[i] : i \in 1..Len(s)}
    /\ \A i, j \in 1..Len(r) : i < j => FirstIndex(r[i], s) < FirstIndex(r[j], s)

IsPrefix(p, s) == Len(p) <= Len(s) /\ \A i \in 1..Len(p) : s[i] = p[i]

\* C2: assigning a list L1 to a key the layer does not hold stores L1 with
\* duplicates removed, first occurrences kept; assigning a list L2 to a key
\* that holds a list stores the old list followed by the new elements of
\* L2, duplicates removed, so after L1 then L2 the key holds the first
\* occurrences of L1 + L2 and the earlier elements keep their place.
C2_ListAppend ==
    [][ (Assigned /\ last'.val.t = "list"
           /\ ~(last'.key \in layer.protected /\ layer.lock))
        => LET k  == last'.key
               L2 == last'.val.l
           IN  IF ~HasKey(layer.dict, k)
               THEN /\ last'.exc = "none"
                    /\ Get(layer'.dict, k).t = "list"
                    /\ IsFirstOccurrences(Get(layer'.dict, k).l, L2)
                    /\ \A L3 \in Lists :
                         LET r == setattr(layer', k, VList(L3))
                         IN  /\ r.exc = "none"
                             /\ IsFirstOccurrences(Get(r.layer.dict, k).l, L2 \o L3)
               ELSE Get(layer.dict, k).t = "list"
                    => /\ last'.exc = "none"
                       /\ Get(layer'.dict, k).t = "list"
                       /\ IsFirstOccurrences(Get(layer'.dict, k).l,
                                             Get(layer.dict, k).l \o L2)
                       /\ IsPrefix(Get(layer.dict, k).l, Get(layer'.dict, k).l)
      ]_envVars

C2_Witness ==
    /\ last.op = "setattr"
    /\ last.key = "FOO"
    /\ last.val = VList(<<"b", "a">>)
    /\ last.exc = "none"
    /\ Get(layer.dict, "FOO") = VList(<<"a", "b">>)

\* C3: the export maps every boolean to "0"/"1", every non-empty list to
\* its elements joined by the key's separator, every other non-empty value
\* to its string form, and drops every key whose value is absent or whose
\* stringified form is empty, the empty list included.
C3_ExportFlattening ==
    (layer.cls # "none" /\ env(layer, list_separator).exc = "none") =>
        LET h == env_hook(layer, layer.dict).env
            e == env(layer, list_separator).env
        IN  /\ DOMAIN e \subseteq KeysOf(h)
            /\ \A k \in KeysOf(h) :
                 LET v == Get(h, k)
                 IN  CASE v.t = "bool" ->
                            k \in DOMAIN e /\ e[k] = (IF v.b THEN "1" ELSE "0")
                       [] v.t = "list" /\ v.l # <<>> ->
                            k \in DOMAIN e
                            /\ e[k] = Join(SeparatorOf(list_separator, k).s, v.l)
                       [] v.t = "list" /\ v.l = <<>> -> k \notin DOMAIN e
                       [] v.t = "none" -> k \notin DOMAIN e
                       [] v.t = "int"  -> k \in DOMAIN e /\ e[k] = IntStr(v.n)
                       [] OTHER ->
                            IF v.s = "" THEN k \notin DOMAIN e
                            ELSE k \in DOMAIN e /\ e[k] = v.s

\* C4: on a WineContext, a sync toggle ESYNC (FSYNC) holding the boolean b
\* is exported as WINEESYNC (WINEFSYNC) = str(int(b)) and never under its
\* own name; a proton distribution adds PROTON_NO_ESYNC (PROTON_NO_FSYNC) =
\* str(1 - int(b)), a plain distribution adds no companion.  The export
\* does not raise when every toggle the layer holds is a boolean.
SyncToggles == {"ESYNC", "FSYNC"}

C4_SyncToggles ==
    layer.cls = "WineContext" =>
        LET x == env(layer, list_separator)
        IN  /\ (\A t \in HookNames :
                  HasKey(layer.dict, t) => Get(layer.dict, t).t = "bool")
               => x.exc = "none"
            /\ x.exc = "none" =>
                 \A t \in SyncToggles :
                   (HasKey(layer.dict, t) /\ Get(layer.dict, t).t = "bool") =>
                     LET b == Get(layer.dict, t).b
                     IN  /\ t \notin DOMAIN x.env
                         /\ HookWineKey(t) \in DOMAIN x.env
                         /\ x.env[HookWineKey(t)] = (IF b THEN "1" ELSE "0")
                         /\ IF layer.is_proton
                            THEN /\ HookProtonKey(t) \in DOMAIN x.env
                                 /\ x.env[HookProtonKey(t)] = (IF b THEN "0" ELSE "1")
                            ELSE HookProtonKey(t) \notin DOMAIN x.env

C4_Witness ==
    /\ layer.cls = "WineContext"
    /\ layer.is_proton
    /\ HasKey(layer.dict, "ESYNC")
    /\ Get(layer.dict, "ESYNC") = VBool(FALSE)
    /\ HasKey(layer.dict, "FSYNC")
    /\ env(layer, list_separator).exc = "none"
    /\ env(layer, list_separator).env["PROTON_NO_ESYNC"] = "1"
    /\ env(layer, list_separator).env["WINEESYNC"] = "0"

(***************************************************************************)
(* Conversions and drive mappings                                          *)
(***************************************************************************)

\* the drive-letter symbolic links of dosdevices whose target is mnt
DrivesOf(mnt) ==
    { dosdevices[i].name : i \in { j \in 1..Len(dosdevices) :
          /\ IsDrive(dosdevices[j])
          /\ dosdevices[j].symlink
          /\ dosdevices[j].target = mnt } }

\* the directory still is as the prefix found it when it was constructed
Untouched == fs_changes = 0 /\ prefix.made

\* C5: for a constructed Prefix and an absolute POSIX path p under an OS
\* mount point that a drive-letter symlink D: of dosdevices targets,
\* get_windows_path(p) is D:/ followed by p's remainder relative to the mount
\* point, and get_native_path of that result is p again.
C5_RoundTrip ==
    \A p \in NativePaths :
       LET mnt == mount_point(p, cwd, mounts)
       IN  ( /\ Untouched
             /\ p.root
             /\ mnt \in partitions
             /\ DrivesOf(mnt) # {}
             /\ plast.op = "get_native_path"
             /\ plast.arg = get_windows_path(prefix, p, cwd, mounts) )
           => /\ \E D \in DrivesOf(mnt) :
                    plast.arg = Win(D, TRUE, RelativeTo(p, mnt).parts)
              /\ plast.res = p

RefreshAgain(op) ==
    /\ plast.op = op
    /\ plast'.op = op
    /\ plast'.tick # plast.tick

\* C6: a drive-mapping refresh (Prefix._update_drive_mapping,
\* UPath._update_drive_mapping) that directly follows another one, nothing
\* having changed dosdevices or the mount table in between, leaves the drive
\* map and the mount-point map exactly as the first run left them.
C6_RefreshIdempotent ==
    [][ /\ RefreshAgain("Prefix._update_drive_mapping") =>
              /\ prefix'.drive_mapping = prefix.drive_mapping
              /\ prefix'.sys_mount_points = prefix.sys_mount_points
        /\ RefreshAgain("UPath._update_drive_mapping") =>
              /\ upath'.drive_mapping = upath.drive_mapping
              /\ upath'.mount_points = upath.mount_points ]_vars

C6_Witness ==
    /\ plast.op = "Prefix._update_drive_mapping"
    /\ plast.again
    /\ plast.exc = "none"
    /\ Len(prefix.drive_mapping) = 2
    /\ MntPath \in DOMAIN prefix.sys_mount_points
    /\ prefix.sys_mount_points[MntPath] = Some("d:")
    /\ upath.made
    /\ MntPath \in DOMAIN upath.mount_points
    /\ upath.mount_points[MntPath] = "d:"

(***************************************************************************)
(* The registry and discovery                                              *)
(***************************************************************************)

\* C7: register(ctx) with ctx a WineContext does not raise, adds ctx to the
\* registry and makes it the default; with any other argument it raises
\* TypeError.
C7_Register ==
    clast.op = "register" =>
       IF isinstance(clast.arg, "WineContext")
       THEN /\ clast.exc = "none"
            /\ clast.arg \in contexts
            /\ default = clast.arg
       ELSE clast.exc = "TypeError"

UnregisterStep(x) ==
    /\ clast'.tick # clast.tick
    /\ clast'.op = "unregister"
    /\ clast'.arg = x

\* C8: unregistering the default context while others remain registered
\* makes one of those the default, unregistering another context leaves the
\* default as it is, and the default is None only when the registry is
\* empty.
C8_Unregister ==
    /\ [][ \A x \in Ctxs : UnregisterStep(x) =>
              /\ clast'.exc = "none"
              /\ (default = x /\ contexts \ {x} # {}) => default' \in contexts \ {x}
              /\ default # x => default' = default ]_vars
    /\ [](default = "None" => contexts = {})

ContextStep ==
    /\ clast'.tick # clast.tick
    /\ clast'.op = "context"

\* both Distribution.default() and Prefix.default() return an instance
DiscoverySucceeds ==
    /\ Distribution_default(dist_places, dist_fs).res.state = "instance"
    /\ Prefix_default(prefix_places, prefix_fs).res.state = "instance"

\* C9: context() never raises; it returns the default context when there is
\* one, without running discovery; otherwise it runs discovery and, when both
\* Distribution.default() and Prefix.default() succeed, registers the new
\* context, makes it the default and returns it, and returns None when
\* discovery fails.
C9_Context ==
    [][ ContextStep =>
           /\ clast'.exc = "none"
           /\ default # "None" =>
                 /\ clast'.res = Ctx(default)
                 /\ UNCHANGED <<dist_places, prefix_places, scans>>
           /\ (default = "None" /\ DiscoverySucceeds) =>
                 /\ clast'.res.state = "context"
                 /\ default' = clast'.res.place
                 /\ default' \in contexts'
           /\ (default = "None" /\ ~DiscoverySucceeds) =>
                 clast'.res = Untried ]_vars

\* C10: however many times Distribution.default() is called, the scan of
\* _look_for runs at most once, whatever it found, and every call returns
\* what the first call returned.
C10_ScanOnce ==
    /\ scans.dist <= 1
    /\ (clast.op = "Distribution.default" /\ first # NotYet) => clast.res = first

DefaultStep ==
    /\ clast'.tick # clast.tick
    /\ clast'.op \in {"Distribution.default", "Prefix.default"}

\* the instance the cache holds, or None
Held(places) ==
    LET hits == { i \in 1..Len(places) : places[i].v.state = "instance" }
    IN  IF hits = {} THEN Untried ELSE places[CHOOSE i \in hits : TRUE].v

\* C11: in the caches of Distribution.default() and Prefix.default(), a place
\* whose construction failed once is marked failed and no later default()
\* call constructs it again; once a place holds an instance, every later
\* call returns that instance.
C11_FailedNeverRetried ==
    /\ [][ DefaultStep =>
              /\ \A i \in 1..Len(clast'.built) : clast'.built[i] \notin raised
              /\ (clast'.op = "Distribution.default" /\ Held(dist_places) # Untried)
                    => clast'.res = Held(dist_places)
              /\ (clast'.op = "Prefix.default" /\ Held(prefix_places) # Untried)
                    => clast'.res = Held(prefix_places) ]_vars
    /\ [](\A place \in raised :
             \/ HasKey(dist_places, place) /\ Get(dist_places, place) = Failed
             \/ HasKey(prefix_places, place) /\ Get(prefix_places, place) = Failed)

\* C12: Distribution.default() and Prefix.default() never raise; they return
\* an instance constructed at one of the places found, or None.
C12_DefaultNeverRaises ==
    clast.op \in {"Distribution.default", "Prefix.default"} =>
       /\ clast.exc = "none"
       /\ \/ clast.res = Untried
          \/ /\ clast.res.state = "instance"
             /\ \/ KindOf(dist_fs, clast.res.place) \in {"wine", "proton"}
                \/ KindOf(prefix_fs, clast.res.place) = "prefix"

(***************************************************************************)
(* Validation and construction of a distribution                           *)
(***************************************************************************)

\* the directory holds every directory and every executable file required
DistComplete(tree) ==
    /\ \A x \in Range(required_dirs) : tree[x] = "dir"
    /\ \A x \in Range(required_bins) : tree[x] = "exec"

\* the path is a directory holding every directory and every file required
PrefixComplete(tree) ==
    /\ tree["."] = "dir"
    /\ \A x \in Range(prefix_dirs) : tree[x] = "dir"
    /\ \A x \in Range(prefix_files) : tree[x] \in {"file", "exec"}

\* C13: Distribution.validate(path) is true exactly when path holds the four
\* directories and the five executable files, Prefix.validate(path) exactly
\* when path is a directory holding the two directories and the four files;
\* with any one required item removed the result is false; neither raises.
C13_Validate ==
    /\ dlast.op = "Distribution.validate" =>
          /\ dlast.exc = "none"
          /\ dlast.res = DistComplete(droot.trees[dlast.arg])
          /\ \A x \in DistItems :
                Distribution_validate(WithItem(droot.trees[dlast.arg], x, "absent"))
                   = [exc |-> "none", res |-> FALSE]
    /\ dlast.op = "Prefix.validate" =>
          /\ dlast.exc = "none"
          /\ dlast.res = PrefixComplete(ptree)
          /\ \A x \in PrefixItems \ {"."} :
                Prefix_validate(WithPrefixItem(ptree, x, "absent"))
                   = [exc |-> "none", res |-> FALSE]

\* validate(root / d) returns true
Validates(d) == Distribution_validate(droot.trees[d]) = [exc |-> "none", res |-> TRUE]

\* C14: Distribution(root) fails with NotADirectoryError when root is no
\* directory; with an executable file proton at root, winedist is root/dist
\* if that validates, else root/files if that validates, else the
\* construction fails, and is_proton is true; without the marker, winedist is
\* root if root validates, else the construction fails, and is_proton is
\* false; every constructed Distribution has a winedist that validates.
C14_Distribution ==
    dlast.op = "Distribution" =>
       /\ ~droot.isdir => dlast.exc = "NotADirectoryError"
       /\ (droot.isdir /\ droot.marker = "exec") =>
             IF Validates("root/dist")
             THEN dlast.exc = "none" /\ dlast.obj = Constructed("root/dist", TRUE).obj
             ELSE IF Validates("root/files")
             THEN dlast.exc = "none" /\ dlast.obj = Constructed("root/files", TRUE).obj
             ELSE dlast.exc # "none"
       /\ (droot.isdir /\ droot.marker # "exec") =>
             IF Validates("root")
             THEN dlast.exc = "none" /\ dlast.obj = Constructed("root", FALSE).obj
             ELSE dlast.exc # "none"
       /\ dlast.obj.made => Validates(dlast.obj.winedist)


(***************************************************************************)
(* Properties of update and copy, stated on SpecCopy.                      *)
(***************************************************************************)
Updated == ulast'.n # ulast.n /\ ulast'.op = "update"

\* the layer the last call was made on, before and after it
Before == IF ulast'.target = "self" THEN self ELSE duply
After  == IF ulast'.target = "self" THEN self' ELSE duply'

SameAt(d1, d2, k) ==
    /\ HasKey(d1, k) = HasKey(d2, k)
    /\ HasKey(d1, k) => Get(d1, k) = Get(d2, k)

\* C15: update(other) without clear raises nothing; it leaves every
\* protected key and every key absent from other as the layer held it, and
\* it gives every other key of other the value an ordinary assignment of
\* other's value gives it (a list is appended and de-duplicated, any other
\* value replaces what was held).
C15_Update ==
    [][ (Updated /\ ulast'.clear.t = "none")
        => /\ ulast'.exc = "none"
           /\ \A k \in KeysOf(Before.dict) \cup KeysOf(After.dict) :
                (k \in Before.protected \/ ~HasKey(ulast'.other, k))
                => SameAt(Before.dict, After.dict, k)
           /\ \A i \in 1..Len(ulast'.other) :
                LET k == ulast'.other[i].k
                    v == ulast'.other[i].v
                IN  k \notin Before.protected
                    => /\ HasKey(After.dict, k)
                       /\ Get(After.dict, k) =
                            IF v.t = "list"
                            THEN VList(unique((IF HasKey(Before.dict, k)
                                                   /\ Get(Before.dict, k).t = "list"
                                               THEN Get(Before.dict, k).l
                                               ELSE <<>>) \o v.l, FALSE))
                            ELSE v
      ]_vars

\* C16: update(other, clear) with clear not a list raises ValueError and
\* changes nothing; with clear a list, a key of other named in clear whose
\* held value is a list ends as other's list de-duplicated, and one that is
\* not held or holds no list is assigned as usual, the call raising nothing.
C16_UpdateClear ==
    [][ (Updated /\ ulast'.clear.t # "none")
        => IF ulast'.clear.t # "list"
           THEN ulast'.exc = "ValueError" /\ After = Before
           ELSE \A i \in 1..Len(ulast'.other) :
                  LET k == ulast'.other[i].k
                      v == ulast'.other[i].v
                  IN  (k \notin Before.protected /\ InSeq(k, ulast'.clear.l))
                      => IF HasKey(Before.dict, k) /\ Get(Before.dict, k).t = "list"
                         THEN v.t = "list"
                              => /\ HasKey(After.dict, k)
                                 /\ Get(After.dict, k) = VList(unique(v.l, FALSE))
                         ELSE /\ ulast'.exc = "none"
                              /\ HasKey(After.dict, k)
                              /\ Get(After.dict, k) =
                                   IF v.t = "list" THEN VList(unique(v.l, FALSE)) ELSE v
      ]_vars

\* C17: once C = L.copy() exists, a call on C (assignment, in-place list
\* append, update, unset) leaves L as it was, and a call on L leaves C as it
\* was.
C17_CopyIndependent ==
    [][ (duply.cls # "none" /\ ulast'.n # ulast.n /\ ulast'.op # "copy")
        => /\ ulast'.target = "duply" => self' = self
           /\ ulast'.target = "self"  => duply' = duply
      ]_vars

\* C has been changed by an in-place append on a list it got from L, and L
\* still holds the list without the new element.
C17_Witness ==
    /\ ulast.op = "append"
    /\ ulast.target = "duply"
    /\ HasKey(self.dict, ulast.key)
    /\ Get(self.dict, ulast.key).t = "list"
    /\ Get(duply.dict, ulast.key).l = Get(self.dict, ulast.key).l \o <<ulast.val.s>>


(***************************************************************************)
(* Properties of the conversions and of the drive table, stated on         *)
(* SpecPath.                                                               *)
(***************************************************************************)
\* C18: get_native_path of a Windows path with a drive and a root raises
\* nothing; when the drive is in the drive table of the prefix the result is
\* the drive's target joined with the names after the anchor, and when it is
\* not the result is "/" joined with them.
C18_NativePath ==
    (plast.op = "get_native_path" /\ plast.arg \in WinPaths)
    => /\ plast.exc = "none"
       /\ plast.res = JoinPath(anchorFrom(prefix.drive_mapping, plast.arg.drive, 1),
                               PosixRel(plast.arg.parts))

\* C19: on a Prefix whose directory is as it was at construction, refreshed
\* or not, get_windows_path(p) of a POSIX path p is D:/ followed by p relative
\* to its nearest mount point when a drive D of dosdevices targets that mount
\* point, and otherwise Z:/ followed by the absolute p, Z being a drive that
\* targets "/".
C19_WindowsPath ==
    (Untouched /\ plast.op = "get_windows_path" /\ plast.arg \in NativePaths)
    => LET abs == Absolute(plast.arg, cwd)
           mnt == mount_point(plast.arg, cwd, mounts)
       IN  IF mnt \in partitions /\ DrivesOf(mnt) # {}
           THEN \E D \in DrivesOf(mnt) :
                   plast.res = Win(D, TRUE, RelativeTo(abs, mnt).parts)
           ELSE DrivesOf(RootPath) # {}
                => \E Z \in DrivesOf(RootPath) : plast.res = Win(Z, TRUE, abs.parts)

\* the drive letters of dosdevices with their resolved targets
DriveLinks ==
    { <<dosdevices[i].name,
        IF dosdevices[i].target.root THEN dosdevices[i].target
        ELSE Resolve(DevicesDir, dosdevices[i].target)>> :
      i \in { j \in 1..Len(dosdevices) :
                /\ Len(dosdevices[j].name) = 2
                /\ SubSeq(dosdevices[j].name, 2, 2) = ":"
                /\ dosdevices[j].symlink } }

\* C20: a refresh of the drive table raises nothing, and after it the table
\* associates exactly the drive letters of dosdevices that are symbolic
\* links, each with its resolved target: in a Prefix, whose table is keyed
\* by target, and in a UPath, whose table is keyed by letter.
C20_DriveTable ==
    /\ plast.op = "Prefix._update_drive_mapping"
       => /\ plast.exc = "none"
          /\ { <<prefix.drive_mapping[i].v, prefix.drive_mapping[i].k>> :
                 i \in 1..Len(prefix.drive_mapping) } = DriveLinks
    /\ plast.op = "UPath._update_drive_mapping"
       => /\ plast.exc = "none"
          /\ { <<upath.drive_mapping[i].k, upath.drive_mapping[i].v>> :
                 i \in 1..Len(upath.drive_mapping) } = DriveLinks


(***************************************************************************)
(* Properties of the list separators, stated on SpecSep.                   *)
(***************************************************************************)
\* the names under which layer i holds a list with something to join
ListKeys(i) ==
    {k \in KeysOf(layers[i].dict) :
        Get(layers[i].dict, k).t = "list" /\ Len(Get(layers[i].dict, k).l) > 1}

\* the export of layer i joins the list under k with sep
JoinedWith(i, k, sep) ==
    LET e == env(layers[i], list_separator)
    IN  /\ e.exc = "none"
        /\ k \in DOMAIN e.env
        /\ e.env[k] = Join(sep, Get(layers[i].dict, k).l)

\* C21: the export of a WineContext that registered no separator after its
\* construction joins the list under WINEDLLOVERRIDES with ';' and the list
\* under any other name with ':'.
C21_ExportSeparators ==
    \A i \in Slots :
       (layers[i].cls = "WineContext" /\ \A k \in SepKeys : <<i, k>> \notin registered)
       => \A k \in ListKeys(i) :
             JoinedWith(i, k, IF k = "WINEDLLOVERRIDES" THEN ";" ELSE ":")

\* C25: add_list_separator(key, separator) with a string of one character
\* registers it for key and raises nothing; with any other separator it
\* raises and leaves the table of separators as it was.
C25_AddListSeparator ==
    [][ (slast'.n # slast.n /\ slast'.op = "add_list_separator")
        => IF slast'.sep.t = "str" /\ Len(slast'.sep.s) = 1
           THEN /\ slast'.exc = "none"
                /\ slast'.key \in DOMAIN list_separator'
                /\ list_separator'[slast'.key] = slast'.sep
           ELSE /\ slast'.exc # "none"
                /\ list_separator' = list_separator
      ]_vars

\* C28: a call of add_list_separator on one layer, and the construction of
\* one layer, leave the export of every other layer as it was; and a layer
\* joins a list under a name for which it registered nothing itself with
\* ':' (with ';' under WINEDLLOVERRIDES when it is a WineContext).
C28_SeparatorsPerLayer ==
    /\ [][ (slast'.n # slast.n /\ slast'.op \in {"add_list_separator", "init"})
           => \A j \in Slots \ {slast'.i} :
                 layers[j].cls # "none"
                 => env(layers'[j], list_separator') = env(layers[j], list_separator)
         ]_vars
    /\ [](\A j \in Slots : \A k \in ListKeys(j) :
             <<j, k>> \notin registered
             => JoinedWith(j, k, IF k = "WINEDLLOVERRIDES" /\ layers[j].cls = "WineContext"
                                 THEN ";" ELSE ":"))


(***************************************************************************)
(* Properties of the Windows-path classifiers, stated on SpecCls.          *)
(***************************************************************************)
Letters == {"c"}

\* the text starts with a drive letter, a colon and a slash or backslash
DrivePrefix(text) ==
    /\ Len(text) >= 3
    /\ text[1] \in Letters
    /\ text[2] = ":"
    /\ text[3] \in {"/", "\\"}

\* C22: both classifiers answer true for an argument whose string starts
\* with a drive letter, ':' and a slash or backslash, given as a str or as
\* a path object, and for every PureWindowsPath; both answer false for any
\* other argument; and the two answers are the same on every argument.
C22_IsWindowsPath ==
    wres.made
    => LET expected == wpath.cls = "PureWindowsPath" \/ DrivePrefix(PathStr(wpath))
       IN  /\ wres.util = expected
           /\ wres.path = expected
           /\ wres.util = wres.path


(***************************************************************************)
(* Properties of the launch command, stated on SpecProg.                   *)
(***************************************************************************)
\* the command the program's settings call for: the prepend command when one
\* is set, the loader or the shim with its run-mode token, steam.exe when
\* use_steam is on and use_proton is off, the executable
ExpectedCommand(p, ctx) ==
    LET d == context_dist(ctx)
    IN  (IF IsSet(p.prepend_command) THEN <<p.prepend_command.s>> ELSE <<>>)
        \o (IF p.use_proton
            THEN <<dist_proton(d), IF p.cls = "Program" THEN p.proton_mode ELSE p.proton_runmode>>
            ELSE <<dist_loader(d)>>)
        \o (IF p.use_steam /\ ~p.use_proton THEN <<SteamExe>> ELSE <<>>)
        \o <<p.exe>>

NoRepeat(cmd) == \A i, j \in 1..Len(cmd) : cmd[i] = cmd[j] => i = j

\* C23: the command of a program of either class is the prepend command if
\* one is set, then the loader or the pair of shim and run-mode token, then
\* steam.exe only when use_steam is on and use_proton is off, then the
\* executable, and no element of it appears twice.
C23_LaunchCommand ==
    glast.op = "command"
    => /\ glast.res = ExpectedCommand(prog, pcontext)
       /\ NoRepeat(glast.res)

\* how the command of a program launches: through the loader, or through
\* the shim with the token that follows it
Launch(p, ctx) ==
    LET cmd  == command(p, ctx)
        shim == dist_proton(context_dist(ctx))
        at   == {i \in 1..(Len(cmd) - 1) : cmd[i] = shim}
    IN  IF at = {} THEN [kind |-> "loader", token |-> ""]
        ELSE [kind |-> "shim", token |-> cmd[(CHOOSE i \in at : TRUE) + 1]]

\* C24: on a context with a bundle-style distribution use_proton(True, mode)
\* with mode 'runinprefix' or 'run' raises nothing and the command then
\* launches through the shim with that mode, until use_proton is called
\* again; on a context with a plain distribution the command launches
\* through the loader and holds no 'None'.
C24_UseProton ==
    /\ [][ glast'.n # glast.n
           => /\ (glast'.op = "use_proton" /\ pcontext.is_proton /\ glast'.usage
                  /\ glast'.mode \in {"runinprefix", "run"})
                 => /\ glast'.exc = "none"
                    /\ Launch(prog', pcontext') = [kind |-> "shim", token |-> glast'.mode]
              /\ glast'.op \in {"use_steam", "prepend_command", "command"}
                 => Launch(prog', pcontext') = Launch(prog, pcontext)
         ]_vars
    /\ []((prog.cls # "none" /\ ~pcontext.is_proton)
          => /\ Launch(prog, pcontext).kind = "loader"
             /\ "None" \notin Range(command(prog, pcontext)))


(***************************************************************************)
(* Properties of subprocess.Process, stated on SpecProc.                   *)
(***************************************************************************)
StateRank(s) == CASE s = "NOT_STARTED" -> 0 [] s = "RUNNING" -> 1 [] OTHER -> 2

\* C26: a Process starts at most one child process whatever the sequence of
\* run() and popen(); run() raises RuntimeError exactly when the state is
\* not NOT_STARTED or a child exists, popen() raises RuntimeError exactly
\* when a child exists or the state is STOPPED; and the state never moves
\* back from STOPPED to RUNNING or from either to NOT_STARTED.
C26_StartedOnce ==
    /\ [](starts <= 1)
    /\ [][ rlast'.n # rlast.n
           => /\ rlast'.op = "run"
                 => ((rlast'.exc = "RuntimeError")
                      <=> ~(state = "NOT_STARTED" /\ process = "None"))
              /\ rlast'.op = "popen"
                 => ((rlast'.exc = "RuntimeError")
                      <=> (process # "None" \/ state = "STOPPED"))
              /\ StateRank(state') >= StateRank(state)
         ]_vars


(***************************************************************************)
(* The protected names of the program's context, stated on SpecProg.       *)
(***************************************************************************)
\* the layer holds every protected name with the value its constructor
\* seeded
SeedsKept(ctx) ==
    LET seeds == WineSeeds(context_dist(ctx), PfxPath)
    IN  \A i \in 1..Len(seeds) :
           /\ HasKey(ctx.dict, seeds[i].k)
           /\ Get(ctx.dict, seeds[i].k) = seeds[i].v

\* C27: a constructed WineContext holds WINEDIST, WINELOADER, WINEPREFIX,
\* WINESERVER and WINEARCH with their seeded values after every sequence of
\* assignments, update, unset, del, setdefault, pop, popitem and clear on it
\* and of use_proton on a program made with it.
C27_ProtectedKeysStay ==
    pcontext.cls = "WineContext" => SeedsKept(pcontext)


(***************************************************************************)
(* Assignment of a list over a value that is no list, stated on SpecEnv.   *)
(***************************************************************************)
\* C29: an assignment of a list to a name that is not protected raises
\* nothing, by attribute or by item; and when the name held a value that is
\* no list, it holds the de-duplicated list afterwards.
C29_ListOverScalar ==
    [][ (last'.tick # last.tick /\ last'.op \in {"setattr", "setitem"}
         /\ last'.val.t = "list" /\ last'.key \notin layer.protected)
        => /\ last'.exc = "none"
           /\ (HasKey(layer.dict, last'.key) /\ Get(layer.dict, last'.key).t # "list")
              => Get(layer'.dict, last'.key) = VList(unique(last'.val.l, FALSE))
      ]_vars


(***************************************************************************)
(* copy() and equality, stated on SpecCopy.                                *)
(***************************************************************************)
\* C30: the layer copy() returns is equal to the original: it holds the same
\* names with equal values, and no name the original does not hold.
C30_CopyEqual ==
    [][ (ulast'.n # ulast.n /\ ulast'.op = "copy")
        => /\ EnvMapping_eq(duply', self.dict)
           /\ KeysOf(duply'.dict) = KeysOf(self.dict)
      ]_vars

=============================================================================
